---- MODULE Spec2Model ----
(***************************************************************************)
(* Verification model of the RAG WhatsApp chatbot core:                    *)
(*   - the ingestion pipeline (app/services/file_processor.py) together    *)
(*     with the re-index / update endpoints that drive it,                 *)
(*   - the query path: Retriever, VectorStore.search and RAGChain,         *)
(*   - the embedding services and their Redis cache.                       *)
(* Scores and thresholds are modelled in tenths (0.7 is 7).                *)
(***************************************************************************)
EXTENDS Bags, FiniteSets, Integers, Naturals, Sequences, TLC

(***************************************************************************)
(* Bounds of the model                                                     *)
(***************************************************************************)
MaxTasks == 3
MaxChunks == 2
MaxHits == 2

\* The document under ingestion.  Every statement of the pipeline selects by
\* document id (Document.id == document_id, DocumentChunk.document_id ==
\* document_id) and every point id starts with the document id, so the rows and
\* points of other documents are neither read nor written by these operations.
DocIds == {1}
TaskIds == 1..MaxTasks
Titles == {"t1", "t2"}
Providers == {"openai", "gemini"}

VARIABLES
    \* ---- ingestion: relational store, vector index, background tasks ----
    aiProvider,      \* settings.AI_PROVIDER
    docStatus,       \* Document.embedding_status per document ("absent" = no row)
    docTitle,        \* Document.title
    docChunksCount,  \* Document.chunks_count
    docFile,         \* number of chunks the stored file's text yields (0 = empty text)
    chunkRecs,       \* bag of DocumentChunk rows
    points,          \* ids of the points held by the vector index
    tasks,           \* background tasks running process_document_async
    lastOp,          \* the operation that has just returned (observation)
    prevIds,         \* point ids of a document's chunk rows when it was last re-indexed from completed
    docActive,       \* Document.is_active
    \* ---- query path and embedding cache ----
    enableCache,     \* rag_config.enable_cache (EmbeddingsService.cache_enabled)
    redisUp,         \* whether the Redis cache store answers
    cache,           \* live Redis entries: cache key -> stored embedding
    qCall,           \* the call in progress / just made, with what it did (observation)
    qOut,            \* what that call handed to its caller
    eLast,           \* summary of the latest generate_embedding call (observation)
    \* ---- provider configuration and batch embedding ----
    embedModel,      \* embedding model configured for each provider's service
    eSeen,           \* the vector the latest generate_embedding call returned (observation)
    bLast,           \* the latest generate_embeddings_batch call and its provider requests (observation)
    \* ---- vector store client ----
    qdrantUp,        \* whether the index service answers
    collections,     \* collections held by the index service: name -> vector size
    vsClient,        \* VectorStore.client is not None
    vsInitialized,   \* VectorStore._initialized
    vsLast,          \* the latest VectorStore call (observation)
    \* ---- document processor: chunking and OCR ----
    cIn,             \* arguments of chunk_text
    cOut,            \* what chunk_text returned
    oIn,             \* pages handed to an OCR routine, with what OCR does on each
    oOut,            \* what the OCR routine returned
    wIn,             \* arguments of format_for_whatsapp
    wOut,            \* what format_for_whatsapp returned
    \* ---- one OCR extraction, step by step ----
    rIn,             \* how extraction was entered, the pages, whether a callback was passed
    rPc,             \* where the extraction stands
    rPage,           \* per page: waiting, queued (submitted to the pool), running, done
    rStart,          \* batch_start (in the sequential routine: pages gone through)
    rEnd,            \* batch_end
    rPool,           \* max_workers of the ThreadPoolExecutor in use (0 = none was made)
    rTimedOut,       \* as_completed of the current batch has raised TimeoutError
    rProcessed,      \* processed_pages
    rCalls,          \* processed counts handed to progress_callback, in call order
    \* ---- webhook: rate limiter, deduplication, message store ----
    rlKey,           \* the Redis key rate_limit:<phone>: absent, or its count and whether it carries a TTL
    rlAllowed,       \* allow_request calls answered True by a Redis decision since the key last expired
    dedup,           \* message ids whose key msg:<id> is live in Redis
    hReq,            \* per server worker: the webhook request it is handling and where it stands
    hLast,           \* the request answered last, with the status returned
    hQueued,         \* per message id: user messages stored (each with an auto-reply scheduled)
    hNonDup,         \* per message id: deliveries answered with a status other than 'duplicate'
    hDedupExpired,   \* message ids whose dedup key has at some time reached its 60 seconds
    hRedisFailed,    \* some Redis call of a handler has raised
    hCount           \* webhook requests received so far

ingestVars == <<aiProvider, docStatus, docTitle, docChunksCount, docFile,
                chunkRecs, points, tasks, lastOp, prevIds, docActive>>

queryVars == <<enableCache, redisUp, cache, qCall, qOut, eLast>>

embedVars == <<embedModel, eSeen, bLast>>

storeVars == <<qdrantUp, collections, vsClient, vsInitialized, vsLast>>

\* the relational and vector data of ingestVars, without the provider setting
docVars == <<docStatus, docTitle, docChunksCount, docFile, chunkRecs, points, tasks,
             lastOp, prevIds, docActive>>

procVars == <<cIn, cOut, oIn, oOut, wIn, wOut>>

runVars == <<rIn, rPc, rPage, rStart, rEnd, rPool, rTimedOut, rProcessed, rCalls>>

hookVars == <<rlKey, rlAllowed, dedup, hReq, hLast, hQueued, hNonDup, hDedupExpired,
              hRedisFailed, hCount>>

vars == <<ingestVars, queryVars, embedVars, storeVars, procVars, runVars, hookVars>>

(***************************************************************************)
(* Ingestion pipeline                                                      *)
(***************************************************************************)
Statuses == {"pending", "processing", "completed", "failed"}

NoOp == [op |-> "none", doc |-> 0, ret |-> FALSE]
\* an operation the properties do not observe
OtherOp == [op |-> "other", doc |-> 0, ret |-> FALSE]
IdleTask == [pc |-> "idle", doc |-> 0, n |-> 0]
DoneTask == [pc |-> "done", doc |-> 0, n |-> 0]

\* doc_hash = hashlib.md5(f"{doc.id}_{doc.title}".encode()).hexdigest()[:8]
DocHash(id, title) == <<id, title>>

\* f"doc_{doc.id}_{doc_hash}_chunk_{i}"
ChunkId(id, title, i) == [doc |-> id, hash |-> DocHash(id, title), chunk |-> i]

\* A plausible slip: chunk numbering continues after the points the index
\* already holds for the document instead of restarting at 0.
ChunkIds_append(id, title, n) ==
    [i \in 1..n |-> ChunkId(id, title, (i - 1) + Cardinality({p \in points : p.doc = id}))]

\* chunk_ids = [f"doc_..." for i in range(len(chunks))]   (a list, element i+1 is chunk i)
ChunkIds(id, title, n) == [i \in 1..n |-> ChunkId(id, title, i - 1)]

\* for i, (chunk, chunk_id) in enumerate(zip(chunks, chunk_ids)):
\*     DocumentChunk(document_id=doc.id, chunk_index=i, qdrant_point_id=chunk_id)
NewChunkRecords(id, ids) ==
    SetToBag({[document_id |-> id, chunk_index |-> i - 1, qdrant_point_id |-> ids[i]] :
                 i \in DOMAIN ids})

Range(f) == {f[i] : i \in DOMAIN f}

\* db.query(DocumentChunk).filter(DocumentChunk.document_id == document_id)
RowsOf(d) == {r \in BagToSet(chunkRecs) : r.document_id = d}

\* point_ids = [chunk.qdrant_point_id for chunk in chunks if chunk.qdrant_point_id]
PointIdsOf(d) == {r.qdrant_point_id : r \in RowsOf(d)}

\* number of DocumentChunk rows of a document
RowCount(d) == BagCardinality([r \in RowsOf(d) |-> chunkRecs[r]])

\* db.query(DocumentChunk).filter(...).delete()
DeleteRows(d) == [r \in (BagToSet(chunkRecs) \ RowsOf(d)) |-> chunkRecs[r]]

\* points of the vector index whose payload document_id is d
IndexPointsOf(d) == {p \in points : p.doc = d}

\* A coroutine that is between two awaits holds the event loop: no request
\* handler and no other task runs until it yields or returns.  The only await
\* of process_document_async is the batch embedding call, and the Gemini
\* variant of that call never yields.
Holding(t) ==
    \/ tasks[t].pc = "extracting"
    \/ tasks[t].pc = "embedding" /\ aiProvider = "gemini"

LoopFree == \A t \in TaskIds : ~Holding(t)

FreeTask == {t \in TaskIds : tasks[t].pc = "idle" /\ \A u \in 1..(t - 1) : tasks[u].pc # "idle"}

\* background_tasks.add_task(file_processor.process_document_async, document_id)
AddTask(t, d) == [tasks EXCEPT ![t] = [pc |-> "queued", doc |-> d, n |-> 0]]

\* except Exception as e: ... doc.embedding_status = "failed"; db.commit()
\* (the status write is itself guarded: a failing query or commit is logged only)
MarkFailed(d, handlerOk) ==
    IF handlerOk THEN [docStatus EXCEPT ![d] = "failed"] ELSE docStatus

\* upload_document: create_document_record + add_task
Upload(d, title, n) ==
    /\ LoopFree
    /\ docStatus[d] = "absent"
    /\ \E t \in FreeTask :
         tasks' = AddTask(t, d)
    /\ docStatus' = [docStatus EXCEPT ![d] = "pending"]
    /\ docTitle' = [docTitle EXCEPT ![d] = title]
    /\ docChunksCount' = [docChunksCount EXCEPT ![d] = 0]
    /\ docFile' = [docFile EXCEPT ![d] = n]
    /\ docActive' = [docActive EXCEPT ![d] = TRUE]
    /\ lastOp' = OtherOp
    /\ UNCHANGED <<aiProvider, chunkRecs, points, prevIds>>
    /\ UNCHANGED queryVars
    /\ UNCHANGED storeVars
    /\ UNCHANGED procVars
    /\ UNCHANGED runVars
    /\ UNCHANGED hookVars
    /\ UNCHANGED embedVars

\* process_document_async, lines 85-96: load the document, commit "processing"
TaskStart(t, dbOk, handlerOk) ==
    /\ LoopFree
    /\ tasks[t].pc = "queued"
    /\ LET d == tasks[t].doc IN
         IF dbOk
         THEN /\ docStatus' = [docStatus EXCEPT ![d] = "processing"]
              /\ tasks' = [tasks EXCEPT ![t].pc = "extracting"]
              /\ lastOp' = OtherOp
         ELSE /\ docStatus' = MarkFailed(d, handlerOk)
              /\ tasks' = [tasks EXCEPT ![t] = DoneTask]
              /\ lastOp' = [op |-> "task_end", doc |-> d, ret |-> FALSE]
    /\ UNCHANGED <<aiProvider, docTitle, docChunksCount, docFile, chunkRecs, points, prevIds,
                   docActive>>
    /\ UNCHANGED queryVars
    /\ UNCHANGED storeVars
    /\ UNCHANGED procVars
    /\ UNCHANGED runVars
    /\ UNCHANGED hookVars
    /\ UNCHANGED embedVars

\* process_document_async, lines 100-114: read_file, store content, reject
\* empty text, chunk_text
TaskExtract(t, extractOk, handlerOk) ==
    /\ tasks[t].pc = "extracting"
    /\ LET d == tasks[t].doc IN
         IF extractOk /\ docFile[d] > 0
         THEN /\ tasks' = [tasks EXCEPT ![t] = [pc |-> "embedding", doc |-> d, n |-> docFile[d]]]
              /\ lastOp' = OtherOp
              /\ UNCHANGED docStatus
         ELSE /\ docStatus' = MarkFailed(d, handlerOk)
              /\ tasks' = [tasks EXCEPT ![t] = DoneTask]
              /\ lastOp' = [op |-> "task_end", doc |-> d, ret |-> FALSE]
    /\ UNCHANGED <<aiProvider, docTitle, docChunksCount, docFile, chunkRecs, points, prevIds,
                   docActive>>
    /\ UNCHANGED queryVars
    /\ UNCHANGED storeVars
    /\ UNCHANGED procVars
    /\ UNCHANGED runVars
    /\ UNCHANGED hookVars
    /\ UNCHANGED embedVars

\* process_document_async, lines 117-163: the embeddings arrive, ids are
\* derived, the points are upserted, the chunk rows and the completed status
\* are committed in one transaction
TaskResume(t, outcome, handlerOk) ==
    /\ tasks[t].pc = "embedding"
    /\ Holding(t) \/ LoopFree
    /\ LET d == tasks[t].doc
           n == tasks[t].n
           ids == ChunkIds(d, docTitle[d], n)
       IN /\ points' = IF outcome \in {"commit_fail", "ok"} THEN points \cup Range(ids) ELSE points
          /\ IF outcome = "ok"
             THEN /\ chunkRecs' = chunkRecs (+) NewChunkRecords(d, ids)
                  /\ docStatus' = [docStatus EXCEPT ![d] = "completed"]
                  /\ docChunksCount' = [docChunksCount EXCEPT ![d] = n]
             ELSE /\ docStatus' = MarkFailed(d, handlerOk)
                  /\ UNCHANGED <<chunkRecs, docChunksCount>>
          /\ lastOp' = [op |-> "task_end", doc |-> d, ret |-> (outcome = "ok")]
    /\ tasks' = [tasks EXCEPT ![t] = DoneTask]
    /\ UNCHANGED <<aiProvider, docTitle, docFile, prevIds, docActive>>
    /\ UNCHANGED queryVars
    /\ UNCHANGED storeVars
    /\ UNCHANGED procVars
    /\ UNCHANGED runVars
    /\ UNCHANGED hookVars
    /\ UNCHANGED embedVars

\* FileProcessor.reindex_document followed by the endpoint's add_task
Reindex(d, deleteOk, dbOk) ==
    /\ LoopFree
    /\ docStatus[d] # "absent"
    /\ points' = IF PointIdsOf(d) # {} /\ deleteOk THEN points \ PointIdsOf(d) ELSE points
    /\ IF dbOk
       THEN /\ \E t \in FreeTask : tasks' = AddTask(t, d)
            /\ chunkRecs' = DeleteRows(d)
            /\ docStatus' = [docStatus EXCEPT ![d] = "pending"]
            /\ docChunksCount' = [docChunksCount EXCEPT ![d] = 0]
            /\ prevIds' = [prevIds EXCEPT ![d] =
                             IF docStatus[d] = "completed" THEN PointIdsOf(d) ELSE {}]
            /\ lastOp' = [op |-> "reindex", doc |-> d, ret |-> TRUE]
       ELSE /\ lastOp' = [op |-> "reindex", doc |-> d, ret |-> FALSE]
            /\ UNCHANGED <<tasks, chunkRecs, docStatus, docChunksCount, prevIds>>
    /\ UNCHANGED <<aiProvider, docTitle, docFile, docActive>>
    /\ UNCHANGED queryVars
    /\ UNCHANGED storeVars
    /\ UNCHANGED procVars
    /\ UNCHANGED runVars
    /\ UNCHANGED hookVars
    /\ UNCHANGED embedVars

\* DocumentService.update_document(title=...)
UpdateDocument(d, title) ==
    /\ LoopFree
    /\ docStatus[d] # "absent"
    /\ docTitle[d] # title
    /\ docTitle' = [docTitle EXCEPT ![d] = title]
    /\ lastOp' = OtherOp
    /\ UNCHANGED <<aiProvider, docStatus, docChunksCount, docFile, chunkRecs, points, tasks, prevIds,
                   docActive>>
    /\ UNCHANGED queryVars
    /\ UNCHANGED storeVars
    /\ UNCHANGED procVars
    /\ UNCHANGED runVars
    /\ UNCHANGED hookVars
    /\ UNCHANGED embedVars

\* DocumentService.delete_document on a document that exists: the points named
\* by the document's chunk rows are deleted from the index (a failing delete is
\* logged only), then is_active = False is committed and True is returned.
\* The chunk rows, the status and the queued or running tasks are left alone.
\* A failing commit raises: nothing is returned and the row keeps is_active.
DeleteDocument(d, deleteOk, dbOk) ==
    /\ LoopFree
    /\ docStatus[d] # "absent"
    /\ points' = IF PointIdsOf(d) # {} /\ deleteOk THEN points \ PointIdsOf(d) ELSE points
    /\ IF dbOk
       THEN /\ docActive' = [docActive EXCEPT ![d] = FALSE]
            /\ lastOp' = [op |-> "delete", doc |-> d, ret |-> TRUE]
       ELSE /\ lastOp' = OtherOp
            /\ UNCHANGED docActive
    /\ UNCHANGED <<aiProvider, docStatus, docTitle, docChunksCount, docFile, chunkRecs, tasks,
                   prevIds>>
    /\ UNCHANGED queryVars
    /\ UNCHANGED storeVars
    /\ UNCHANGED procVars
    /\ UNCHANGED runVars
    /\ UNCHANGED hookVars
    /\ UNCHANGED embedVars

(***************************************************************************)
(* Embedding services and their Redis cache                                *)
(***************************************************************************)
RECURSIVE SeqsUpTo(_, _)
SeqsUpTo(S, n) ==
    IF n = 0 THEN {<< >>}
    ELSE LET shorter == SeqsUpTo(S, n - 1)
         IN shorter \cup {Append(q, c) : q \in {x \in shorter : Len(x) = n - 1}, c \in S}

\* raw query strings handed to the orchestrator (lists of characters)
Queries == {<<"a">>, <<" ", "a", " ", " ", "b", " ">>}

\* hashlib.md5(text.encode()).hexdigest(): one digest per text
Md5(text) == <<"md5", text>>

\* EmbeddingsService._get_cache_key:        f"emb:{md5}"
\* GeminiEmbeddingsService._get_cache_key:  f"emb:gemini:{md5}"
CacheKey(svc, text) ==
    IF svc = "gemini" THEN <<"emb", "gemini", Md5(text)>> ELSE <<"emb", Md5(text)>>

\* embedding models a deployment may configure (OPENAI_EMBEDDING_MODEL,
\* GEMINI_EMBEDDING_MODEL); the first of each pair is the default
EmbeddingModels ==
    [openai |-> {"text-embedding-3-small", "text-embedding-3-large"},
     gemini |-> {"models/text-embedding-004", "models/embedding-001"}]

DefaultModels == [openai |-> "text-embedding-3-small", gemini |-> "models/text-embedding-004"]

\* the vector the provider returns for a text: it depends on the provider, on
\* the model named in the request (self.model / self.model_name) and on the text
ProviderEmbedding(svc, text) == [provider |-> svc, model |-> embedModel[svc], text |-> text]

\* Python None as returned by _get_from_cache
NoVector == [provider |-> "none", model |-> "none", text |-> << >>]

\* A plausible slip: the lookup is made under a key that is never written.
GetFromCache_wrongkey(svc, text) ==
    IF ~enableCache THEN NoVector
    ELSE IF ~redisUp THEN NoVector
    ELSE IF <<"embedding", Md5(text)>> \in DOMAIN cache
         THEN cache[<<"embedding", Md5(text)>>] ELSE NoVector

\* _get_from_cache: disabled cache and Redis errors both read as a miss
GetFromCache(svc, text) ==
    IF ~enableCache THEN NoVector
    ELSE IF ~redisUp THEN NoVector
    ELSE IF CacheKey(svc, text) \in DOMAIN cache
         THEN cache[CacheKey(svc, text)] ELSE NoVector

\* _save_to_cache: setex(key, cache_ttl, json.dumps(embedding)); errors are swallowed
SaveToCache(svc, text, vec) ==
    IF enableCache /\ redisUp
    THEN [k \in DOMAIN cache \cup {CacheKey(svc, text)} |->
             IF k = CacheKey(svc, text) THEN vec ELSE cache[k]]
    ELSE cache

\* generate_embedding / generate_embedding_async of either service: cache first,
\* provider on a miss, store the result, re-raise provider errors
GenerateEmbedding(svc, text, providerOk) ==
    LET cached == GetFromCache(svc, text) IN
    IF cached # NoVector
    THEN [raised |-> FALSE, vec |-> cached, calls |-> 0, cache |-> cache]
    ELSE IF ~providerOk
    THEN [raised |-> TRUE, vec |-> NoVector, calls |-> 1, cache |-> cache]
    ELSE [raised |-> FALSE, vec |-> ProviderEmbedding(svc, text), calls |-> 1,
          cache |-> SaveToCache(svc, text, ProviderEmbedding(svc, text))]

(***************************************************************************)
(* Vector index search and Retriever                                       *)
(***************************************************************************)
\* Optional numeric arguments: -1 stands for Python None
NoneArg == -1
ConfigTopK == 5
ConfigMinScore == 7
Scores == {5, 7, 9}
TopKArgs == {NoneArg, 0, 1}
MinScoreArgs == {NoneArg, 0, 5, 9}
FilterArgs == {{}, {<<"category_id", 1>>}}

\* Python "x or default" on an optional number: None and 0 are falsy
OrDefault(x, default) == IF x = NoneArg \/ x = 0 THEN default ELSE x

Hits == [id : 1..MaxHits, score : Scores, payload : {[title |-> "t1"]}]

\* every list of distinct points the index service can return
AllAnswers ==
    {r \in SeqsUpTo(Hits, MaxHits) : \A i, j \in DOMAIN r : i # j => r[i].id # r[j].id}

\* what the index service may answer to client.search(limit, score_threshold):
\* at most limit distinct points, none below the threshold, in any order
QdrantAnswers(limit, threshold) ==
    {r \in AllAnswers : Len(r) <= limit /\ \A i \in DOMAIN r : r[i].score >= threshold}

\* what the collaborators of one retrieval do: the embedding provider answers
\* or fails, the index service answers or fails
RetrievalEnvs(top_k, min_score) ==
    {[providerOk |-> FALSE, searchOk |-> TRUE, answer |-> << >>],
     [providerOk |-> TRUE, searchOk |-> FALSE, answer |-> << >>]}
    \cup {[providerOk |-> TRUE, searchOk |-> TRUE, answer |-> a] :
             a \in QdrantAnswers(top_k, min_score)}

\* VectorStore.search: defaults for limit and score_threshold, filter built
\* only from a non-empty mapping, results reformatted in the service's order
VectorStoreSearch(limit, score_threshold, filter_conditions, searchOk, answer) ==
    [raised |-> ~searchOk,
     limit |-> OrDefault(limit, ConfigTopK),
     score_threshold |-> OrDefault(score_threshold, ConfigMinScore),
     query_filter |-> IF filter_conditions # {} THEN filter_conditions ELSE {},
     results |-> IF searchOk THEN answer ELSE << >>]

RECURSIVE InsertByScore(_, _)
\* position of x in a list kept in non-increasing score order, after its equals
InsertByScore(x, s) ==
    IF s = << >> THEN <<x>>
    ELSE IF Head(s).score >= x.score THEN <<Head(s)>> \o InsertByScore(x, Tail(s))
    ELSE <<x>> \o s

RECURSIVE SortedPrefix(_, _)
SortedPrefix(s, k) ==
    IF k = 0 THEN << >> ELSE InsertByScore(s[k], SortedPrefix(s, k - 1))

\* A plausible slip: the explicit re-sort is dropped.
SortByScore_unsorted(s) == s

\* sorted(results, key=lambda x: x['score'], reverse=True)  (stable)
SortByScore(s) == SortedPrefix(s, Len(s))

\* A plausible slip: the except clause covers the search but not the embedding call.
RetrieverCatch_partial(embedRaised, searchRaised, results) ==
    IF embedRaised THEN [raised |-> TRUE, value |-> << >>]
    ELSE IF searchRaised THEN [raised |-> FALSE, value |-> << >>]
    ELSE [raised |-> FALSE, value |-> results]

\* Retriever.retrieve / retrieve_async: try: ... except Exception: return []
RetrieverCatch(embedRaised, searchRaised, results) ==
    IF embedRaised \/ searchRaised THEN [raised |-> FALSE, value |-> << >>]
    ELSE [raised |-> FALSE, value |-> results]

\* AIServiceFactory.get_embeddings_service: the service of the configured provider
FactoryEmbeddingsService(provider) == IF provider = "gemini" THEN "gemini" ELSE "openai"

\* AIServiceFactory.get_generator_service: the generator of the configured provider
FactoryGeneratorService(provider) == IF provider = "gemini" THEN "gemini" ELSE "openai"

\* FileProcessor.embeddings: return get_embeddings_service()
FileProcessorEmbeddings == FactoryEmbeddingsService(aiProvider)

\* Retriever.__init__: self.embeddings = embeddings_service, the module-level
\* instance of app.rag.embeddings (the OpenAI service)
RetrieverEmbeddings == "openai"

\* RAGChain.__init__: self.generator = generator, the module-level instance of
\* app.rag.generator (the OpenAI generator)
ChainGenerator == "openai"

\* rag_config.vector_size = 768 if settings.AI_PROVIDER == "gemini" else 1536
VectorSize(provider) == IF provider = "gemini" THEN 768 ELSE 1536

\* length of the vectors of each service's default model
\* (OpenAI text-embedding-3-small: 1536, Gemini text-embedding-004: 768)
EmbeddingDim(svc) == IF svc = "gemini" THEN 768 ELSE 1536

\* Retriever.retrieve / retrieve_async.  The retriever embeds through the
\* module-level OpenAI service (from app.rag.embeddings import embeddings_service).
RetrieverRetrieve(query, top_k, min_score, filters, providerOk, searchOk, answer) ==
    LET emb == GenerateEmbedding(RetrieverEmbeddings, query, providerOk)
        k == OrDefault(top_k, ConfigTopK)
        m == OrDefault(min_score, ConfigMinScore)
        found == VectorStoreSearch(k, m, filters, searchOk, answer)
        searched == ~emb.raised
        out == RetrieverCatch(emb.raised, searched /\ found.raised,
                              IF searched THEN SortByScore(found.results) ELSE << >>)
    IN [raised |-> out.raised, value |-> out.value, cache |-> emb.cache,
        embedFailed |-> emb.raised, searchFailed |-> searched /\ found.raised,
        limit |-> found.limit, min_score |-> found.score_threshold,
        query_filter |-> found.query_filter]

(***************************************************************************)
(* Prompt assembly, generation provider and RAG orchestrator               *)
(***************************************************************************)
RECURSIVE LStrip(_)
LStrip(q) == IF q # << >> /\ Head(q) = " " THEN LStrip(Tail(q)) ELSE q

RECURSIVE RStrip(_)
RStrip(q) == IF q # << >> /\ q[Len(q)] = " " THEN RStrip(SubSeq(q, 1, Len(q) - 1)) ELSE q

RECURSIVE SplitWords(_, _)
\* str.split(): the maximal runs of non-blank characters; w is the run being read
SplitWords(q, w) ==
    IF q = << >> THEN (IF w = << >> THEN << >> ELSE <<w>>)
    ELSE IF Head(q) = " "
         THEN (IF w = << >> THEN << >> ELSE <<w>>) \o SplitWords(Tail(q), << >>)
         ELSE SplitWords(Tail(q), Append(w, Head(q)))

RECURSIVE JoinWords(_)
\* ' '.join(words)
JoinWords(ws) ==
    IF ws = << >> THEN << >>
    ELSE IF Len(ws) = 1 THEN ws[1]
    ELSE ws[1] \o <<" ">> \o JoinWords(Tail(ws))

\* RAGChain._preprocess_query: query.strip(), then ' '.join(query.split())
PreprocessQuery(q) == JoinWords(SplitWords(RStrip(LStrip(q)), << >>))

\* conversation histories handed in by the caller (None and [] read alike:
\* "conversation_history or []"); the last one lacks the 'role' key
HistoryArgs ==
    {<< >>, <<[role |-> "user", content |-> "hi"]>>, <<[content |-> "hi"]>>}

MaxMessages == 5

\* format_conversation_history: last max_messages entries, msg['role'] and
\* msg['content'] are subscripted (KeyError on an entry without them)
FormatConversationHistory(messages) ==
    LET recent == IF Len(messages) > MaxMessages
                  THEN SubSeq(messages, Len(messages) - MaxMessages + 1, Len(messages))
                  ELSE messages
    IN IF messages = << >>
       THEN [raised |-> FALSE, value |-> <<"No previous conversation.">>]
       ELSE IF \E i \in DOMAIN recent : {"role", "content"} \ DOMAIN recent[i] # {}
       THEN [raised |-> TRUE, value |-> << >>]
       ELSE [raised |-> FALSE,
             value |-> [i \in DOMAIN recent |->
                          <<IF recent[i].role = "user" THEN "User" ELSE "Assistant",
                            recent[i].content>>]]

\* format_context
FormatContext(retrieved_docs) ==
    IF retrieved_docs = << >>
    THEN <<"No relevant information found in the knowledge base.">>
    ELSE [i \in DOMAIN retrieved_docs |->
             [source |-> i, title |-> retrieved_docs[i].payload.title,
              score |-> retrieved_docs[i].score]]

\* build_messages: SYSTEM_PROMPT.format(context, conversation_history) + user query
BuildMessages(query, context, conversation_history) ==
    <<[role |-> "system",
       content |-> [template |-> "SYSTEM_PROMPT", context |-> context,
                    conversation_history |-> conversation_history]],
      [role |-> "user", content |-> query]>>

\* build_fallback_messages: FALLBACK_PROMPT.format(query, conversation_history) + user query
BuildFallbackMessages(query, conversation_history) ==
    <<[role |-> "system",
       content |-> [template |-> "FALLBACK_PROMPT", query |-> query,
                    conversation_history |-> conversation_history]],
      [role |-> "user", content |-> query]>>

\* A plausible slip: the grounded prompt is built whatever retrieval returned.
ChooseMessages_grounded(retrieved_docs, query, context, conversation_history) ==
    BuildMessages(query, context, conversation_history)

\* RAGChain step 5: "if retrieved_docs:" grounded prompt, else fallback prompt
ChooseMessages(retrieved_docs, query, context, conversation_history) ==
    IF retrieved_docs # << >>
    THEN BuildMessages(query, context, conversation_history)
    ELSE BuildFallbackMessages(query, conversation_history)

\* Answer texts of the generation provider: a text is the list of the lengths
\* of its paragraphs (paragraphs are separated by a blank line, 2 characters)
AnswerTexts == {<<3000>>, <<3000, 3000>>}
UsageTokens == {12}

\* Generator.generate / generate_async: one provider call, errors re-raised
GeneratorGenerate(messages, genOk, text, tokens) ==
    IF genOk THEN [raised |-> FALSE, text |-> text, tokens |-> tokens]
    ELSE [raised |-> TRUE, text |-> << >>, tokens |-> 0]

RECURSIVE SumLen(_)
SumLen(ps) == IF ps = << >> THEN 0 ELSE Head(ps) + SumLen(Tail(ps))

\* len(text) of a text given by its paragraph lengths
TextLen(text) == SumLen(text) + 2 * (Len(text) - 1)

RECURSIVE PackParagraphs(_, _, _, _)
\* the loop of format_for_whatsapp: cur holds the paragraphs of current_chunk,
\* whose length is curLen (each paragraph is followed by "\n\n")
PackParagraphs(paras, cur, curLen, maxLen) ==
    IF paras = << >> THEN (IF cur # << >> THEN <<cur>> ELSE << >>)
    ELSE IF curLen + Head(paras) + 2 <= maxLen
         THEN PackParagraphs(Tail(paras), Append(cur, Head(paras)), curLen + Head(paras) + 2, maxLen)
         ELSE (IF cur # << >> THEN <<cur>> ELSE << >>)
              \o PackParagraphs(Tail(paras), <<Head(paras)>>, Head(paras) + 2, maxLen)

WhatsappMaxLength == 4000

\* Generator.format_for_whatsapp(text, max_length): the list of segments
FormatForWhatsapp(text, maxLen) ==
    IF TextLen(text) <= maxLen THEN <<text>>
    ELSE PackParagraphs(text, << >>, 0, maxLen)

ApologyText == "I apologize, but I'm having trouble processing your request right now. Please try again in a moment."

\* the try block of generate_response / generate_response_async, steps 1-7
RagPipeline(query, history, filters, providerOk, searchOk, answer, genOk, text, tokens) ==
    LET processed == PreprocessQuery(query)
        ret == RetrieverRetrieve(processed, NoneArg, NoneArg, filters, providerOk, searchOk, answer)
        docs == ret.value
        context == FormatContext(docs)
        hist == FormatConversationHistory(history)
        messages == ChooseMessages(docs, processed, context, hist.value)
        gen == GeneratorGenerate(messages, genOk, text, tokens)
        formatted == FormatForWhatsapp(gen.text, WhatsappMaxLength)
        reachedGen == ~ret.raised /\ ~hist.raised
        raised == ret.raised \/ hist.raised \/ gen.raised
    IN [raised |-> raised,
        retrieval |-> ret,
        messages |-> IF reachedGen THEN messages ELSE << >>,
        genCalls |-> IF reachedGen THEN 1 ELSE 0,
        result |->
          IF raised THEN [text |-> << >>]
          ELSE [text |-> IF Len(formatted) = 1 THEN formatted[1] ELSE formatted,
                sources |-> [i \in DOMAIN docs |->
                               [id |-> docs[i].id, title |-> docs[i].payload.title,
                                score |-> docs[i].score]],
                scores |-> [i \in DOMAIN docs |-> docs[i].score],
                tokens |-> gen.tokens,
                retrieval_time_ms |-> "elapsed",
                generation_time_ms |-> "elapsed",
                total_time_ms |-> "elapsed",
                docs_retrieved |-> Len(docs)]]

\* A plausible slip: the handler logs and re-raises instead of answering.
RagCatch_reraise(outcome) ==
    IF outcome.raised THEN [raised |-> TRUE, value |-> [text |-> << >>]]
    ELSE [raised |-> FALSE, value |-> outcome.result]

\* except Exception as e: return the canned apology record
RagCatch(outcome) ==
    IF outcome.raised
    THEN [raised |-> FALSE,
          value |-> [text |-> ApologyText, sources |-> << >>, scores |-> << >>,
                     tokens |-> 0, retrieval_time_ms |-> 0, generation_time_ms |-> 0,
                     total_time_ms |-> "elapsed", docs_retrieved |-> 0,
                     error |-> "str(e)"]]
    ELSE [raised |-> FALSE, value |-> outcome.result]

(***************************************************************************)
(* Calls on the query path                                                 *)
(***************************************************************************)
NoCall == [op |-> "none"]
NoOut == [raised |-> FALSE, value |-> << >>]
NoEmbed == [svc |-> "none", text |-> << >>, ok |-> FALSE, calls |-> 0, cacheUp |-> FALSE,
            intact |-> FALSE, paired |-> FALSE, pairCalls |-> 0]

\* Retriever.retrieve (op = "retrieve") or Retriever.retrieve_async
Retrieve(op, query, top_k, min_score, filters) ==
    /\ qCall = NoCall
    /\ \E env \in RetrievalEnvs(OrDefault(top_k, ConfigTopK), OrDefault(min_score, ConfigMinScore)) :
         LET ret == RetrieverRetrieve(query, top_k, min_score, filters,
                                      env.providerOk, env.searchOk, env.answer)
         IN /\ qCall' = [op |-> op, embedFailed |-> ret.embedFailed,
                         searchFailed |-> ret.searchFailed, limit |-> ret.limit,
                         min_score |-> ret.min_score, query_filter |-> ret.query_filter,
                         embedSvc |-> RetrieverEmbeddings]
            /\ qOut' = [raised |-> ret.raised, value |-> ret.value]
            /\ cache' = ret.cache
    /\ UNCHANGED <<enableCache, redisUp, eLast>>
    /\ UNCHANGED ingestVars
    /\ UNCHANGED storeVars
    /\ UNCHANGED procVars
    /\ UNCHANGED runVars
    /\ UNCHANGED hookVars
    /\ UNCHANGED embedVars

\* what the generation provider does: it answers with a text and a usage count, or fails
GenerationEnvs ==
    {[genOk |-> FALSE, text |-> << >>, tokens |-> 0]}
    \cup [genOk : {TRUE}, text : AnswerTexts, tokens : UsageTokens]

\* RAGChain.generate_response (op = "generate_response") or generate_response_async
GenerateResponse(op, query, history, filters) ==
    /\ qCall = NoCall
    /\ \E env \in RetrievalEnvs(ConfigTopK, ConfigMinScore), g \in GenerationEnvs :
         LET run == RagPipeline(query, history, filters, env.providerOk, env.searchOk,
                                env.answer, g.genOk, g.text, g.tokens)
             ret == run.retrieval
         IN /\ qCall' = [op |-> op, embedFailed |-> ret.embedFailed,
                         searchFailed |-> ret.searchFailed, retrieved |-> ret.value,
                         historyOk |-> ~FormatConversationHistory(history).raised,
                         genOk |-> g.genOk, genText |-> g.text,
                         messages |-> run.messages, genCalls |-> run.genCalls,
                         embedSvc |-> RetrieverEmbeddings, genSvc |-> ChainGenerator]
            /\ qOut' = RagCatch(run)
            /\ cache' = ret.cache
    /\ UNCHANGED <<enableCache, redisUp, eLast>>
    /\ UNCHANGED ingestVars
    /\ UNCHANGED storeVars
    /\ UNCHANGED procVars
    /\ UNCHANGED runVars
    /\ UNCHANGED hookVars
    /\ UNCHANGED embedVars

(***************************************************************************)
(* The suspend-capable call path, from its own source                      *)
(***************************************************************************)
\* EmbeddingsService.generate_embedding_async: cache first, then
\* await async_client.embeddings.create, store, re-raise provider errors
GenerateEmbeddingAsync(svc, text, providerOk) ==
    LET cached == GetFromCache(svc, text) IN
    IF cached # NoVector
    THEN [raised |-> FALSE, vec |-> cached, calls |-> 0, cache |-> cache]
    ELSE IF ~providerOk
    THEN [raised |-> TRUE, vec |-> NoVector, calls |-> 1, cache |-> cache]
    ELSE [raised |-> FALSE, vec |-> ProviderEmbedding(svc, text), calls |-> 1,
          cache |-> SaveToCache(svc, text, ProviderEmbedding(svc, text))]

\* A plausible slip: the suspend-capable retriever trusts the order of the index.
RetrieverRetrieveAsync_unsorted(query, top_k, min_score, filters, providerOk, searchOk, answer) ==
    LET emb == GenerateEmbeddingAsync(RetrieverEmbeddings, query, providerOk)
        k == OrDefault(top_k, ConfigTopK)
        m == OrDefault(min_score, ConfigMinScore)
        found == VectorStoreSearch(k, m, filters, searchOk, answer)
        searched == ~emb.raised
    IN [raised |-> FALSE,
        value |-> IF searched /\ ~found.raised THEN found.results ELSE << >>,
        cache |-> emb.cache]

\* Retriever.retrieve_async (lines 70-114): await generate_embedding_async, the
\* blocking VectorStore.search, sorted(...), except Exception: return []
RetrieverRetrieveAsync(query, top_k, min_score, filters, providerOk, searchOk, answer) ==
    LET emb == GenerateEmbeddingAsync(RetrieverEmbeddings, query, providerOk)
        k == OrDefault(top_k, ConfigTopK)
        m == OrDefault(min_score, ConfigMinScore)
        found == VectorStoreSearch(k, m, filters, searchOk, answer)
        searched == ~emb.raised
    IN [raised |-> FALSE,
        value |-> IF searched /\ ~found.raised THEN SortByScore(found.results) ELSE << >>,
        cache |-> emb.cache]

\* Generator.generate_async: await async_client.chat.completions.create, errors re-raised
GeneratorGenerateAsync(messages, genOk, text, tokens) ==
    IF genOk THEN [raised |-> FALSE, text |-> text, tokens |-> tokens]
    ELSE [raised |-> TRUE, text |-> << >>, tokens |-> 0]

\* RAGChain.generate_response_async (lines 152-267): steps 1-7 with the awaited
\* calls, and the except branch with the apology record
GenerateResponseAsync(query, history, filters, providerOk, searchOk, answer, genOk, text, tokens) ==
    LET processed == PreprocessQuery(query)
        ret == RetrieverRetrieveAsync(processed, NoneArg, NoneArg, filters,
                                      providerOk, searchOk, answer)
        docs == ret.value
        context == FormatContext(docs)
        hist == FormatConversationHistory(history)
        messages == IF docs # << >> THEN BuildMessages(processed, context, hist.value)
                    ELSE BuildFallbackMessages(processed, hist.value)
        gen == GeneratorGenerateAsync(messages, genOk, text, tokens)
        formatted == FormatForWhatsapp(gen.text, WhatsappMaxLength)
    IN [cache |-> ret.cache,
        raised |-> FALSE,
        value |->
          IF ret.raised \/ hist.raised \/ gen.raised
          THEN [text |-> ApologyText, sources |-> << >>, scores |-> << >>,
                tokens |-> 0, retrieval_time_ms |-> 0, generation_time_ms |-> 0,
                total_time_ms |-> "elapsed", docs_retrieved |-> 0, error |-> "str(e)"]
          ELSE [text |-> IF Len(formatted) = 1 THEN formatted[1] ELSE formatted,
                sources |-> [i \in DOMAIN docs |->
                               [id |-> docs[i].id, title |-> docs[i].payload.title,
                                score |-> docs[i].score]],
                scores |-> [i \in DOMAIN docs |-> docs[i].score],
                tokens |-> gen.tokens,
                retrieval_time_ms |-> "elapsed",
                generation_time_ms |-> "elapsed",
                total_time_ms |-> "elapsed",
                docs_retrieved |-> Len(docs)]]

\* retrieve and retrieve_async are called with the same arguments in the same
\* state, and the collaborators answer both alike
BothRetrieve(query, top_k, min_score, filters) ==
    /\ qCall = NoCall
    /\ \E env \in RetrievalEnvs(OrDefault(top_k, ConfigTopK), OrDefault(min_score, ConfigMinScore)) :
         LET blocking == RetrieverRetrieve(query, top_k, min_score, filters,
                                           env.providerOk, env.searchOk, env.answer)
             suspending == RetrieverRetrieveAsync(query, top_k, min_score, filters,
                                                  env.providerOk, env.searchOk, env.answer)
         IN /\ qCall' = [op |-> "both_retrieve",
                         blocking |-> [raised |-> blocking.raised, value |-> blocking.value,
                                       cache |-> blocking.cache],
                         suspending |-> [raised |-> suspending.raised, value |-> suspending.value,
                                         cache |-> suspending.cache]]
            /\ qOut' = [raised |-> blocking.raised, value |-> blocking.value]
            /\ cache' = blocking.cache
    /\ UNCHANGED <<enableCache, redisUp, eLast>>
    /\ UNCHANGED ingestVars
    /\ UNCHANGED storeVars
    /\ UNCHANGED procVars
    /\ UNCHANGED runVars
    /\ UNCHANGED hookVars
    /\ UNCHANGED embedVars

\* generate_response and generate_response_async, likewise
BothGenerateResponse(query, history, filters) ==
    /\ qCall = NoCall
    /\ \E env \in RetrievalEnvs(ConfigTopK, ConfigMinScore) : \E g \in GenerationEnvs :
         LET run == RagPipeline(query, history, filters, env.providerOk, env.searchOk,
                                env.answer, g.genOk, g.text, g.tokens)
             blocking == RagCatch(run)
             suspending == GenerateResponseAsync(query, history, filters, env.providerOk,
                                                 env.searchOk, env.answer, g.genOk, g.text,
                                                 g.tokens)
         IN /\ qCall' = [op |-> "both_generate_response",
                         blocking |-> [raised |-> blocking.raised, value |-> blocking.value,
                                       cache |-> run.retrieval.cache],
                         suspending |-> [raised |-> suspending.raised,
                                         value |-> suspending.value,
                                         cache |-> suspending.cache]]
            /\ qOut' = blocking
            /\ cache' = run.retrieval.cache
    /\ UNCHANGED <<enableCache, redisUp, eLast>>
    /\ UNCHANGED ingestVars
    /\ UNCHANGED storeVars
    /\ UNCHANGED procVars
    /\ UNCHANGED runVars
    /\ UNCHANGED hookVars
    /\ UNCHANGED embedVars

\* the caller takes the returned value
Return ==
    /\ qCall # NoCall
    /\ qCall' = NoCall
    /\ qOut' = NoOut
    /\ UNCHANGED <<enableCache, redisUp, cache, eLast>>
    /\ UNCHANGED ingestVars
    /\ UNCHANGED storeVars
    /\ UNCHANGED procVars
    /\ UNCHANGED runVars
    /\ UNCHANGED hookVars
    /\ UNCHANGED embedVars

\* the Redis store becomes unreachable, or reachable again
RedisFlip ==
    /\ qCall = NoCall
    /\ redisUp' = ~redisUp
    /\ eLast' = [eLast EXCEPT !.intact = FALSE]
    /\ UNCHANGED <<enableCache, cache, qCall, qOut>>
    /\ UNCHANGED ingestVars
    /\ UNCHANGED storeVars
    /\ UNCHANGED procVars
    /\ UNCHANGED runVars
    /\ UNCHANGED hookVars
    /\ UNCHANGED embedVars

\* the TTL of an entry (rag_config.cache_ttl) elapses
Expire(k) ==
    /\ qCall = NoCall
    /\ k \in DOMAIN cache
    /\ cache' = [x \in DOMAIN cache \ {k} |-> cache[x]]
    /\ eLast' = IF k = CacheKey(eLast.svc, eLast.text)
                THEN [eLast EXCEPT !.intact = FALSE] ELSE eLast
    /\ UNCHANGED <<enableCache, redisUp, qCall, qOut>>
    /\ UNCHANGED ingestVars
    /\ UNCHANGED storeVars
    /\ UNCHANGED procVars
    /\ UNCHANGED runVars
    /\ UNCHANGED hookVars
    /\ UNCHANGED embedVars

\* texts handed to the embedding services
EmbedTexts == {PreprocessQuery(q) : q \in Queries}

\* a direct call of generate_embedding / generate_embedding_async on the
\* OpenAI or the Gemini service
Embed(svc, text, providerOk) ==
    /\ LET emb == GenerateEmbedding(svc, text, providerOk)
           up == enableCache /\ redisUp
           second == /\ eLast.svc = svc /\ eLast.text = text
                     /\ eLast.ok /\ eLast.cacheUp /\ eLast.intact
       IN /\ cache' = emb.cache
          /\ eLast' = [svc |-> svc, text |-> text, ok |-> ~emb.raised, calls |-> emb.calls,
                       cacheUp |-> up, intact |-> TRUE, paired |-> second,
                       pairCalls |-> IF second THEN eLast.calls + emb.calls ELSE emb.calls]
          /\ eSeen' = emb.vec
    /\ UNCHANGED <<enableCache, redisUp, qCall, qOut, embedModel, bLast>>
    /\ UNCHANGED ingestVars
    /\ UNCHANGED storeVars
    /\ UNCHANGED procVars
    /\ UNCHANGED runVars
    /\ UNCHANGED hookVars

\* the process is restarted with another embedding model configured for one
\* provider (self.model = rag_config.embedding_model); the Redis entries stay
SetEmbeddingModel(svc, model) ==
    /\ embedModel[svc] # model
    /\ embedModel' = [embedModel EXCEPT ![svc] = model]
    /\ eLast' = NoEmbed
    /\ eSeen' = NoVector
    /\ UNCHANGED <<enableCache, redisUp, cache, qCall, qOut, bLast>>
    /\ UNCHANGED ingestVars
    /\ UNCHANGED storeVars
    /\ UNCHANGED procVars
    /\ UNCHANGED runVars
    /\ UNCHANGED hookVars

(***************************************************************************)
(* Batch embedding                                                         *)
(***************************************************************************)
MaxBatch == 2

\* BATCH_SIZE = 100 of GeminiEmbeddingsService.generate_embeddings_batch
BatchSize == 100

\* a long input: n texts, alternately the two texts of EmbedTexts
LongTexts(n) == [i \in 1..n |-> IF i % 2 = 1 THEN <<"a">> ELSE <<"a", " ", "b">>]

\* input lists of a batch call: every short list, and lists that need two and
\* three provider batches when nothing is cached
BatchInputs ==
    SeqsUpTo(EmbedTexts, MaxBatch)
    \cup {LongTexts(BatchSize + 1), LongTexts(2 * BatchSize + 1)}

RECURSIVE Slices(_, _)
\* for batch_start in range(0, len(s), n): s[batch_start:batch_start + n]
Slices(s, n) ==
    IF s = << >> THEN << >>
    ELSE IF Len(s) <= n THEN <<s>>
    ELSE <<SubSeq(s, 1, n)>> \o Slices(SubSeq(s, n + 1, Len(s)), n)

RECURSIVE Concat(_)
Concat(ss) == IF ss = << >> THEN << >> ELSE Head(ss) \o Concat(Tail(ss))

\* for text, embedding in zip(texts, embeddings): self._save_to_cache(text, embedding)
SaveBatchToCache(c, svc, texts) ==
    IF enableCache /\ redisUp
    THEN [k \in DOMAIN c \cup {CacheKey(svc, texts[i]) : i \in DOMAIN texts} |->
             IF \E i \in DOMAIN texts : k = CacheKey(svc, texts[i])
             THEN ProviderEmbedding(svc, (CHOOSE t \in Range(texts) : k = CacheKey(svc, t)))
             ELSE c[k]]
    ELSE c

\* the requests of a batch call that reach the provider: all of them, or those
\* up to and including the failing one (failAt = 0: none fails)
RequestsMade(planned, failAt) ==
    IF failAt = 0 \/ failAt > Len(planned) THEN planned ELSE SubSeq(planned, 1, failAt)

\* EmbeddingsService.generate_embeddings_batch / _async: the whole input goes
\* to the provider in one request, the cache is written but never read
OpenAIBatch(texts, failAt) ==
    LET planned == IF texts = << >> THEN << >> ELSE <<texts>>
        raised == failAt > 0 /\ failAt <= Len(planned)
    IN [raised |-> raised,
        requests |-> RequestsMade(planned, failAt),
        out |-> IF raised THEN << >>
                ELSE [i \in DOMAIN texts |-> ProviderEmbedding("openai", texts[i])],
        cache |-> IF raised \/ texts = << >> THEN cache
                  ELSE SaveBatchToCache(cache, "openai", texts)]

\* GeminiEmbeddingsService.generate_embeddings_batch / _async: cache lookup
\* for every text, the misses go to the provider in slices of BATCH_SIZE, each
\* answer is put at its original index and cached
GeminiBatch(texts, failAt) ==
    LET cached == [i \in DOMAIN texts |-> GetFromCache("gemini", texts[i])]
        indices_to_generate == SelectSeq([i \in DOMAIN texts |-> i],
                                         LAMBDA i : cached[i] = NoVector)
        texts_to_generate == [j \in DOMAIN indices_to_generate |-> texts[indices_to_generate[j]]]
        planned == Slices(texts_to_generate, BatchSize)
        raised == failAt > 0 /\ failAt <= Len(planned)
        done == IF raised THEN SubSeq(planned, 1, failAt - 1) ELSE planned
    IN [raised |-> raised,
        requests |-> RequestsMade(planned, failAt),
        out |-> IF raised THEN << >>
                ELSE [i \in DOMAIN texts |->
                         IF cached[i] # NoVector THEN cached[i]
                         ELSE ProviderEmbedding("gemini", texts[i])],
        cache |-> SaveBatchToCache(cache, "gemini", Concat(done))]

\* generate_embeddings_batch / generate_embeddings_batch_async of either service
EmbedBatch(svc, texts, failAt) ==
    /\ LET run == IF svc = "gemini" THEN GeminiBatch(texts, failAt) ELSE OpenAIBatch(texts, failAt)
       IN /\ cache' = run.cache
          /\ bLast' = [svc |-> svc, texts |-> texts, raised |-> run.raised, out |-> run.out,
                       requests |-> run.requests,
                       hits |-> {i \in DOMAIN texts : GetFromCache(svc, texts[i]) # NoVector}]
    /\ eLast' = NoEmbed
    /\ UNCHANGED <<enableCache, redisUp, qCall, qOut, embedModel, eSeen>>
    /\ UNCHANGED ingestVars
    /\ UNCHANGED storeVars
    /\ UNCHANGED procVars
    /\ UNCHANGED runVars
    /\ UNCHANGED hookVars

IngestInit ==
    /\ aiProvider \in Providers
    /\ docStatus = [d \in DocIds |-> "absent"]
    /\ docTitle = [d \in DocIds |-> "t1"]
    /\ docChunksCount = [d \in DocIds |-> 0]
    /\ docFile = [d \in DocIds |-> 0]
    /\ chunkRecs = EmptyBag
    /\ points = {}
    /\ tasks = [t \in TaskIds |-> IdleTask]
    /\ lastOp = NoOp
    /\ prevIds = [d \in DocIds |-> {}]
    /\ docActive = [d \in DocIds |-> TRUE]

QueryInit ==
    /\ enableCache \in BOOLEAN
    /\ redisUp = TRUE
    /\ cache = << >>
    /\ qCall = NoCall
    /\ qOut = NoOut
    /\ eLast = NoEmbed

(***************************************************************************)
(* Vector store client                                                     *)
(***************************************************************************)
\* VectorStore.collection_name: rag_config.qdrant_collection, i.e.
\* settings.QDRANT_COLLECTION, whatever the provider
CollectionName(provider) == "documents"

StoreOps == {"insert_documents", "search", "delete_documents", "get_collection_info",
             "delete_collection"}

NoStoreCall == [op |-> "none", raised |-> FALSE, wasInitialized |-> FALSE, up |-> FALSE]

\* _ensure_collection against a reachable service: create the collection with
\* the configured vector size unless one of that name exists
EnsureCollection(provider) ==
    IF CollectionName(provider) \in DOMAIN collections THEN collections
    ELSE [n \in DOMAIN collections \cup {CollectionName(provider)} |->
             IF n = CollectionName(provider) THEN VectorSize(provider) ELSE collections[n]]

\* the body shared by __init__ and _ensure_initialized:
\*   self.client = self._init_client(); self._ensure_collection(); self._initialized = True
\* clientOk: the QdrantClient constructor returned (it may or may not contact
\* the service); the collection listing needs the service
TryInitialize(provider, clientOk) ==
    [client |-> clientOk,
     initialized |-> clientOk /\ qdrantUp,
     collections |-> IF clientOk /\ qdrantUp THEN EnsureCollection(provider) ELSE collections]

\* the process starts with AI_PROVIDER = provider and the module creates
\* vector_store = VectorStore(): __init__ swallows every failure
Construct(provider, clientOk) ==
    /\ qdrantUp => clientOk
    /\ LET init == TryInitialize(provider, clientOk)
       IN /\ vsClient' = init.client
          /\ vsInitialized' = init.initialized
          /\ collections' = init.collections
    /\ aiProvider' = provider
    /\ vsLast' = [op |-> "construct", raised |-> FALSE, wasInitialized |-> FALSE, up |-> qdrantUp]
    /\ UNCHANGED qdrantUp
    /\ UNCHANGED <<docVars, queryVars, embedVars>>
    /\ UNCHANGED procVars
    /\ UNCHANGED runVars
    /\ UNCHANGED hookVars

\* the vector the caller hands to an operation: chunks are embedded by the
\* file processor's service, queries by the retriever's
CallerDim(op) ==
    IF op = "search" THEN EmbeddingDim(RetrieverEmbeddings)
    ELSE EmbeddingDim(FileProcessorEmbeddings)

\* insert_documents, search, delete_documents, get_collection_info,
\* delete_collection: self._ensure_initialized(), then one client call on
\* self.collection_name; every exception is logged and re-raised
StoreOperation(op, clientOk) ==
    /\ vsLast.op # "none"
    /\ qdrantUp => clientOk
    /\ LET lazy == ~vsInitialized /\ ~vsClient
           init == IF lazy THEN TryInitialize(aiProvider, clientOk)
                   ELSE [client |-> vsClient, initialized |-> vsInitialized,
                         collections |-> collections]
           initRaised == lazy /\ ~init.initialized
           name == CollectionName(aiProvider)
           callRaised ==
               \/ ~qdrantUp
               \/ name \notin DOMAIN init.collections
               \/ op \in {"insert_documents", "search"} /\ init.collections[name] # CallerDim(op)
       IN /\ vsClient' = init.client
          /\ vsInitialized' = init.initialized
          /\ collections' =
                IF ~initRaised /\ ~callRaised /\ op = "delete_collection"
                THEN [n \in DOMAIN init.collections \ {name} |-> init.collections[n]]
                ELSE init.collections
          /\ vsLast' = [op |-> op, raised |-> initRaised \/ callRaised,
                        wasInitialized |-> vsInitialized, up |-> qdrantUp]
    /\ UNCHANGED <<qdrantUp, aiProvider>>
    /\ UNCHANGED <<docVars, queryVars, embedVars>>
    /\ UNCHANGED procVars
    /\ UNCHANGED runVars
    /\ UNCHANGED hookVars

\* the index service becomes unreachable, or reachable again
QdrantFlip ==
    /\ qdrantUp' = ~qdrantUp
    /\ UNCHANGED <<collections, vsClient, vsInitialized, vsLast, aiProvider>>
    /\ UNCHANGED <<docVars, queryVars, embedVars>>
    /\ UNCHANGED procVars
    /\ UNCHANGED runVars
    /\ UNCHANGED hookVars

(***************************************************************************)
(* Document processor: chunk_text                                          *)
(***************************************************************************)
MaxTextLen == 5

\* characters of the texts: a letter, the period, the blank and the newline
TextChars == {"a", ".", " ", "\n"}

Texts == SeqsUpTo(TextChars, MaxTextLen)

\* settings.RAG_CHUNK_SIZE and settings.RAG_CHUNK_OVERLAP
ConfigChunkSize == 512
ConfigChunkOverlap == 50

ChunkSizeArgs == {NoneArg, 1, 2}
OverlapArgs == {NoneArg, 0, 1}

\* count_tokens: the number of tokens the encoder makes of a text; here every
\* letter and every period is one token and blanks belong to their neighbour
CountTokens(text) == Cardinality({i \in DOMAIN text : text[i] # " "})

\* text.replace('\n', ' ')
ReplaceNewlines(text) == [i \in DOMAIN text |-> IF text[i] = "\n" THEN " " ELSE text[i]]

RECURSIVE SplitOnPeriodBlank(_, _)
\* str.split('. '): cur is the piece being read
SplitOnPeriodBlank(text, cur) ==
    IF text = << >> THEN <<cur>>
    ELSE IF Len(text) >= 2 /\ text[1] = "." /\ text[2] = " "
         THEN <<cur>> \o SplitOnPeriodBlank(SubSeq(text, 3, Len(text)), << >>)
         ELSE SplitOnPeriodBlank(Tail(text), Append(cur, Head(text)))

\* str.strip() of a text without newlines
Strip(text) == RStrip(LStrip(text))

\* sentences = text.replace('\n', ' ').split('. '), each then taken as
\* sentence.strip() + ". "
Sentences(text) ==
    LET pieces == SplitOnPeriodBlank(ReplaceNewlines(text), << >>)
    IN [i \in DOMAIN pieces |-> Strip(pieces[i]) \o <<".", " ">>]

\* Python s[-n:] for n > 0
LastChars(s, n) == IF Len(s) <= n THEN s ELSE SubSeq(s, Len(s) - n + 1, Len(s))

\* chunks.append(current_chunk.strip()); prefix and own record which part of
\* the chunk is inserted overlap and which sentences were put into it
ClosedChunk(st) == [text |-> Strip(st.current_chunk), prefix |-> st.prefix, own |-> st.own]

\* A plausible slip: a chunk that starts with overlap starts with the overlap only.
ChunkStep_overlaponly(st, sentence, chunk_size, overlap) ==
    LET sentence_tokens == CountTokens(sentence) IN
    IF st.current_tokens + sentence_tokens <= chunk_size
    THEN [st EXCEPT !.current_chunk = @ \o sentence, !.current_tokens = @ + sentence_tokens,
                    !.own = Append(@, sentence)]
    ELSE LET chunks == IF st.current_chunk # << >> THEN Append(st.chunks, ClosedChunk(st))
                       ELSE st.chunks
         IN IF overlap > 0 /\ chunks # << >>
            THEN LET overlap_text == LastChars(st.current_chunk, overlap * 4)
                 IN [chunks |-> chunks, current_chunk |-> overlap_text,
                     current_tokens |-> CountTokens(overlap_text),
                     prefix |-> overlap_text, own |-> << >>]
            ELSE [chunks |-> chunks, current_chunk |-> sentence,
                  current_tokens |-> sentence_tokens, prefix |-> << >>, own |-> <<sentence>>]

\* one turn of "for sentence in sentences" (lines 368-387)
ChunkStep(st, sentence, chunk_size, overlap) ==
    LET sentence_tokens == CountTokens(sentence) IN
    IF st.current_tokens + sentence_tokens <= chunk_size
    THEN [st EXCEPT !.current_chunk = @ \o sentence, !.current_tokens = @ + sentence_tokens,
                    !.own = Append(@, sentence)]
    ELSE LET chunks == IF st.current_chunk # << >> THEN Append(st.chunks, ClosedChunk(st))
                       ELSE st.chunks
         IN IF overlap > 0 /\ chunks # << >>
            THEN LET overlap_text == LastChars(st.current_chunk, overlap * 4)
                 IN [chunks |-> chunks, current_chunk |-> overlap_text \o sentence,
                     current_tokens |-> CountTokens(overlap_text \o sentence),
                     prefix |-> overlap_text, own |-> <<sentence>>]
            ELSE [chunks |-> chunks, current_chunk |-> sentence,
                  current_tokens |-> sentence_tokens, prefix |-> << >>, own |-> <<sentence>>]

RECURSIVE ChunkLoop(_, _, _, _)
ChunkLoop(st, sentences, chunk_size, overlap) ==
    IF sentences = << >> THEN st
    ELSE ChunkLoop(ChunkStep(st, Head(sentences), chunk_size, overlap),
                   Tail(sentences), chunk_size, overlap)

\* DocumentProcessor.chunk_text(text, chunk_size, overlap)
ChunkText(text, chunk_size, overlap) ==
    LET size == OrDefault(chunk_size, ConfigChunkSize)
        over == OrDefault(overlap, ConfigChunkOverlap)
        start == [chunks |-> << >>, current_chunk |-> << >>, current_tokens |-> 0,
                  prefix |-> << >>, own |-> << >>]
        end == ChunkLoop(start, Sentences(text), size, over)
    IN IF end.current_chunk # << >> THEN Append(end.chunks, ClosedChunk(end)) ELSE end.chunks

NotRun == [called |-> FALSE, chunks |-> << >>]

\* a call of chunk_text on the arguments drawn at the start
CallChunkText ==
    /\ ~cOut.called
    /\ cOut' = [called |-> TRUE, chunks |-> ChunkText(cIn.text, cIn.chunk_size, cIn.overlap)]
    /\ UNCHANGED <<cIn, oIn, oOut, wIn, wOut>>
    /\ UNCHANGED runVars
    /\ UNCHANGED hookVars
    /\ UNCHANGED <<ingestVars, queryVars, embedVars, storeVars>>

(***************************************************************************)
(* Document processor: OCR of the pages of a scanned document              *)
(***************************************************************************)
MaxPages == 6

\* ocr_config defaults: max_workers, page_timeout and batch_timeout (seconds)
OcrMaxWorkers == 4
PageTimeout == 30
BatchTimeout == 120

\* what pytesseract does on a page: it returns the text, it raises, or it
\* needs more than page_timeout seconds
PageOutcomes == {"ok", "error", "timeout"}

PageLists == SeqsUpTo(PageOutcomes, MaxPages)

\* the OCR output of page i of the document (pages count from 1)
PageTexts == <<"page1", "page2", "page3", "page4", "page5", "page6", "page7", "page8">>

Blankline == "\n\n"

\* a text as the sequence of its pieces; the empty string adds no piece
Piece(str) == IF str = "" THEN << >> ELSE <<str>>

\* A plausible slip: a page that fails ends the loop (break for continue).
SequentialLoop_break(pages) ==
    LET ok == {i \in DOMAIN pages : \A j \in 1..i : pages[j] # "error"}
    IN Concat([i \in 1..Cardinality(ok) |-> <<PageTexts[i], Blankline>>])

\* _process_ocr_sequential: image_to_string is called without a timeout, so a
\* slow page is waited for; a page that raises is skipped
SequentialLoop(pages) ==
    Concat([i \in DOMAIN pages |->
              IF pages[i] = "error" THEN << >> ELSE <<PageTexts[i], Blankline>>])

\* ocr_single_page of _process_ocr_batch_parallel: image_to_string with
\* timeout = page_timeout inside try/except, "" for a page that failed
OcrSinglePage(page_number, outcome) == IF outcome = "ok" THEN PageTexts[page_number] ELSE ""

\* seconds a worker is busy with a page, at most: a page that returns may need
\* just under page_timeout, a page that raises fails at once, the timeout
\* stops tesseract at page_timeout
PageSeconds(outcome) ==
    CASE outcome = "ok" -> PageTimeout - 1
      [] outcome = "error" -> 0
      [] outcome = "timeout" -> PageTimeout

RECURSIVE Schedule(_, _)
\* ThreadPoolExecutor: the submitted pages are taken in order, each by the
\* worker that is free first; free[j] is when worker j becomes free
Schedule(outcomes, free) ==
    IF outcomes = << >> THEN free
    ELSE LET j == CHOOSE j \in DOMAIN free :
                      \A k \in DOMAIN free : free[j] < free[k] \/ (free[j] = free[k] /\ j <= k)
         IN Schedule(Tail(outcomes), [free EXCEPT ![j] = @ + PageSeconds(Head(outcomes))])

\* when the last page of the batch is done
BatchSeconds(outcomes, max_workers) ==
    LET free == Schedule(outcomes, [j \in 1..max_workers |-> 0])
    IN CHOOSE t \in {free[j] : j \in DOMAIN free} : \A j \in DOMAIN free : free[j] <= t

RECURSIVE JoinPages(_)
\* "\n\n".join(page_texts)
JoinPages(page_texts) ==
    IF page_texts = << >> THEN << >>
    ELSE IF Len(page_texts) = 1 THEN Piece(page_texts[1])
    ELSE Piece(Head(page_texts)) \o <<Blankline>> \o JoinPages(Tail(page_texts))

\* _process_ocr_batch_parallel(images, start_page, max_workers):
\* as_completed(..., timeout = batch_timeout) raises out of the function when
\* the batch is not done in time
OcrBatchParallel(outcomes, start_page, max_workers) ==
    IF BatchSeconds(outcomes, max_workers) > BatchTimeout
    THEN [raised |-> TRUE, text |-> << >>]
    ELSE [raised |-> FALSE,
          text |-> JoinPages([i \in DOMAIN outcomes |->
                                 OcrSinglePage(start_page + i, outcomes[i])])]

Min(a, b) == IF a <= b THEN a ELSE b

\* OCRConfig.get_batch_size with batch_size_adaptive = True
GetBatchSize(total_pages) ==
    IF total_pages <= 5 THEN total_pages
    ELSE IF total_pages <= 20 THEN Min(4, total_pages \div 2)
    ELSE IF total_pages <= 50 THEN Min(6, total_pages \div 4)
    ELSE Min(8, total_pages \div 6)

\* OCRConfig.get_worker_count
GetWorkerCount(batch_size) == Min(OcrMaxWorkers, batch_size)

RECURSIVE BatchLoop(_, _, _, _, _)
\* for batch_start in range(0, total_pages, batch_size): a batch that raises is
\* logged and left out
BatchLoop(pages, batch_start, batch_size, max_workers, all_text) ==
    IF batch_start >= Len(pages) THEN all_text
    ELSE LET batch_end == Min(batch_start + batch_size, Len(pages))
             batch == OcrBatchParallel(SubSeq(pages, batch_start + 1, batch_end),
                                       batch_start, max_workers)
         IN BatchLoop(pages, batch_end, batch_size, max_workers,
                      IF batch.raised THEN all_text ELSE all_text \o batch.text)

\* _process_ocr_in_batches: range() with step 0 raises ValueError
OcrInBatches(pages) ==
    LET batch_size == GetBatchSize(Len(pages))
        max_workers == GetWorkerCount(batch_size)
    IN IF batch_size = 0 THEN [raised |-> TRUE, text |-> << >>]
       ELSE [raised |-> FALSE, text |-> BatchLoop(pages, 0, batch_size, max_workers, << >>)]

\* a call of _process_ocr_sequential on the pages drawn at the start
ProcessOcrSequential ==
    /\ ~oOut.called
    /\ oIn.routine = "sequential"
    /\ oOut' = [called |-> TRUE, raised |-> FALSE, text |-> SequentialLoop(oIn.pages)]
    /\ UNCHANGED <<cIn, cOut, oIn, wIn, wOut>>
    /\ UNCHANGED runVars
    /\ UNCHANGED hookVars
    /\ UNCHANGED <<ingestVars, queryVars, embedVars, storeVars>>

\* a call of _process_ocr_in_batches on the pages drawn at the start
ProcessOcrInBatches ==
    /\ ~oOut.called
    /\ oIn.routine = "in_batches"
    /\ LET r == OcrInBatches(oIn.pages)
       IN oOut' = [called |-> TRUE, raised |-> r.raised, text |-> r.text]
    /\ UNCHANGED <<cIn, cOut, oIn, wIn, wOut>>
    /\ UNCHANGED runVars
    /\ UNCHANGED hookVars
    /\ UNCHANGED <<ingestVars, queryVars, embedVars, storeVars>>

(***************************************************************************)
(* Generator.format_for_whatsapp on the characters of the text             *)
(***************************************************************************)
MaxLengthArgs == 1..4

RECURSIVE SplitOnBlankline(_, _)
\* str.split('\n\n'): cur is the piece being read
SplitOnBlankline(text, cur) ==
    IF text = << >> THEN <<cur>>
    ELSE IF Len(text) >= 2 /\ text[1] = "\n" /\ text[2] = "\n"
         THEN <<cur>> \o SplitOnBlankline(SubSeq(text, 3, Len(text)), << >>)
         ELSE SplitOnBlankline(Tail(text), Append(cur, Head(text)))

Whitespace == {" ", "\n"}

RECURSIVE LStripWhitespace(_)
LStripWhitespace(t) ==
    IF t # << >> /\ Head(t) \in Whitespace THEN LStripWhitespace(Tail(t)) ELSE t

RECURSIVE RStripWhitespace(_)
RStripWhitespace(t) ==
    IF t # << >> /\ t[Len(t)] \in Whitespace
    THEN RStripWhitespace(SubSeq(t, 1, Len(t) - 1)) ELSE t

\* str.strip()
StripWhitespace(t) == RStripWhitespace(LStripWhitespace(t))

RECURSIVE WhatsappLoop(_, _, _, _)
\* for para in paragraphs (lines 212-218)
WhatsappLoop(paragraphs, chunks, current_chunk, max_length) ==
    IF paragraphs = << >>
    THEN [chunks |-> chunks, current_chunk |-> current_chunk]
    ELSE LET para == Head(paragraphs) IN
         IF Len(current_chunk) + Len(para) + 2 <= max_length
         THEN WhatsappLoop(Tail(paragraphs), chunks,
                           current_chunk \o para \o <<"\n", "\n">>, max_length)
         ELSE WhatsappLoop(Tail(paragraphs),
                           IF current_chunk # << >>
                           THEN Append(chunks, StripWhitespace(current_chunk)) ELSE chunks,
                           para \o <<"\n", "\n">>, max_length)

\* Generator.format_for_whatsapp(text, max_length)
FormatForWhatsappChars(text, max_length) ==
    IF Len(text) <= max_length THEN <<text>>
    ELSE LET end == WhatsappLoop(SplitOnBlankline(text, << >>), << >>, << >>, max_length)
         IN IF end.current_chunk # << >>
            THEN Append(end.chunks, StripWhitespace(end.current_chunk))
            ELSE end.chunks

\* a call of format_for_whatsapp on the arguments drawn at the start
CallFormatForWhatsapp ==
    /\ ~wOut.called
    /\ wOut' = [called |-> TRUE, segments |-> FormatForWhatsappChars(wIn.text, wIn.max_length)]
    /\ UNCHANGED <<cIn, cOut, oIn, oOut, wIn>>
    /\ UNCHANGED <<ingestVars, queryVars, embedVars, storeVars, runVars>>
    /\ UNCHANGED hookVars

\* no formatting call has been made
FormatIdle ==
    /\ wIn = [text |-> << >>, max_length |-> WhatsappMaxLength]
    /\ wOut = [called |-> FALSE, segments |-> << >>]

(***************************************************************************)
(* Webhook: POST /api/webhook, rate limiter and deduplication              *)
(***************************************************************************)
MaxRequests == 2

\* settings.RATE_LIMIT_MESSAGES_PER_MINUTE
RateLimit == 10

\* Server worker processes.  Inside one process the handler has no await and
\* runs through; two processes share Redis and the database and interleave.
Workers == {1, 2}

MsgIds == {"msg_1", "msg_2"}

\* events WAHA (or a test) posts
Events == {"message", "message.any", "message.incoming", "message.status"}

NoKey == [present |-> FALSE, count |-> 0, ttl |-> FALSE]

NoRequest == [pc |-> "idle", event |-> "none", msg |-> "none", phoneOk |-> FALSE, current |-> NoneArg]

NoResponse == [event |-> "none", msg |-> "none", phoneOk |-> FALSE, status |-> "none"]

\* the handler of worker w returns: the JSON body's status goes to the client
Respond(w, status) ==
    /\ hLast' = [event |-> hReq[w].event, msg |-> hReq[w].msg,
                 phoneOk |-> hReq[w].phoneOk, status |-> status]
    /\ hReq' = [hReq EXCEPT ![w] = NoRequest]

\* webhook(): the event is read and dispatched (lines 48-62); for a message
\* event handle_incoming_message_raw applies its filters (lines 91-109)
Receive(w, event, msg, phoneOk) ==
    /\ hReq[w].pc = "idle"
    /\ hCount < MaxRequests
    /\ hCount' = hCount + 1
    /\ IF event \in {"message", "message.any"}
       THEN IF phoneOk
            THEN /\ hReq' = [hReq EXCEPT ![w] = [pc |-> "dedup_exists", event |-> event,
                                                 msg |-> msg, phoneOk |-> phoneOk,
                                                 current |-> NoneArg]]
                 /\ UNCHANGED hLast
            ELSE /\ hLast' = [event |-> event, msg |-> msg, phoneOk |-> phoneOk,
                              status |-> "ignored_invalid_phone"]
                 /\ UNCHANGED hReq
       ELSE /\ hLast' = [event |-> event, msg |-> msg, phoneOk |-> phoneOk,
                         status |-> IF event \in {"message.status", "session.status"}
                                    THEN "acknowledged" ELSE "ignored"]
            /\ UNCHANGED hReq
    /\ UNCHANGED <<rlKey, rlAllowed, dedup, hQueued, hNonDup, hDedupExpired, hRedisFailed>>
    /\ UNCHANGED <<ingestVars, queryVars, embedVars, storeVars, procVars, runVars>>

\* redis_client.exists(dedup_key) (line 115); a Redis error skips the
\* deduplication (lines 120-121)
DedupExists(w) ==
    /\ hReq[w].pc = "dedup_exists"
    /\ IF ~redisUp
       THEN /\ hReq' = [hReq EXCEPT ![w].pc = "rate_get"]
            /\ hRedisFailed' = TRUE
            /\ UNCHANGED <<hLast, hNonDup>>
       ELSE IF hReq[w].msg \in dedup
       THEN /\ Respond(w, "duplicate")
            /\ UNCHANGED <<hRedisFailed, hNonDup>>
       ELSE /\ hReq' = [hReq EXCEPT ![w].pc = "dedup_setex"]
            /\ UNCHANGED <<hLast, hRedisFailed, hNonDup>>
    /\ UNCHANGED <<rlKey, rlAllowed, dedup, hQueued, hDedupExpired, hCount>>
    /\ UNCHANGED <<ingestVars, queryVars, embedVars, storeVars, procVars, runVars>>

\* redis_client.setex(dedup_key, 60, "1") (line 119)
DedupSetex(w) ==
    /\ hReq[w].pc = "dedup_setex"
    /\ IF ~redisUp
       THEN /\ hRedisFailed' = TRUE
            /\ UNCHANGED <<dedup, hDedupExpired>>
       ELSE /\ dedup' = dedup \cup {hReq[w].msg}
            /\ UNCHANGED <<hRedisFailed, hDedupExpired>>
    /\ hReq' = [hReq EXCEPT ![w].pc = "rate_get"]
    /\ UNCHANGED <<rlKey, rlAllowed, hLast, hQueued, hNonDup, hCount>>
    /\ UNCHANGED <<ingestVars, queryVars, embedVars, storeVars, procVars, runVars>>

\* allow_request: current = self.redis.get(key) (line 37); any exception
\* answers True (lines 55-58)
RateGet(w) ==
    /\ hReq[w].pc = "rate_get"
    /\ IF ~redisUp
       THEN /\ hReq' = [hReq EXCEPT ![w].pc = "store"]
            /\ hRedisFailed' = TRUE
       ELSE /\ hReq' = [hReq EXCEPT ![w].pc = "rate_act",
                                   ![w].current = IF rlKey.present THEN rlKey.count ELSE NoneArg]
            /\ UNCHANGED hRedisFailed
    /\ UNCHANGED <<rlKey, rlAllowed, dedup, hLast, hQueued, hNonDup, hDedupExpired, hCount>>
    /\ UNCHANGED <<ingestVars, queryVars, embedVars, storeVars, procVars, runVars>>

\* allow_request, lines 39-53: setex(key, window, 1) when the key was read as
\* absent, incr(key) when the count read is under the limit (INCR on a key
\* that is gone makes it anew with value 1 and no expiry), refusal otherwise
RateAct(w) ==
    /\ hReq[w].pc = "rate_act"
    /\ IF hReq[w].current # NoneArg /\ hReq[w].current >= RateLimit
       THEN /\ Respond(w, "rate_limited")
            /\ hNonDup' = [hNonDup EXCEPT ![hReq[w].msg] = @ + 1]
            /\ UNCHANGED <<rlKey, rlAllowed, hRedisFailed>>
       ELSE /\ hReq' = [hReq EXCEPT ![w].pc = "store"]
            /\ UNCHANGED <<hLast, hNonDup>>
            /\ IF ~redisUp
               THEN /\ hRedisFailed' = TRUE
                    /\ UNCHANGED <<rlKey, rlAllowed>>
               ELSE /\ rlKey' = IF hReq[w].current = NoneArg
                                THEN [present |-> TRUE, count |-> 1, ttl |-> TRUE]
                                ELSE IF rlKey.present
                                THEN [rlKey EXCEPT !.count = @ + 1]
                                ELSE [present |-> TRUE, count |-> 1, ttl |-> FALSE]
                    /\ rlAllowed' = rlAllowed + 1
                    /\ UNCHANGED hRedisFailed
    /\ UNCHANGED <<dedup, hQueued, hDedupExpired, hCount>>
    /\ UNCHANGED <<ingestVars, queryVars, embedVars, storeVars, procVars, runVars>>

\* lines 130-157: user and conversation are fetched or made, the message is
\* saved, send_auto_reply is scheduled and 'queued' returned; a database
\* error is answered with status 'error'
StoreAndSchedule(w, dbOk) ==
    /\ hReq[w].pc = "store"
    /\ Respond(w, IF dbOk THEN "queued" ELSE "error")
    /\ hQueued' = IF dbOk THEN [hQueued EXCEPT ![hReq[w].msg] = @ + 1] ELSE hQueued
    /\ hNonDup' = [hNonDup EXCEPT ![hReq[w].msg] = @ + 1]
    /\ UNCHANGED <<rlKey, rlAllowed, dedup, hDedupExpired, hRedisFailed, hCount>>
    /\ UNCHANGED <<ingestVars, queryVars, embedVars, storeVars, procVars, runVars>>

\* the window of the rate-limit key ends: Redis drops a key that carries a TTL
ExpireRateKey ==
    /\ rlKey.present
    /\ rlKey.ttl
    /\ rlKey' = NoKey
    /\ rlAllowed' = 0
    /\ UNCHANGED <<dedup, hReq, hLast, hQueued, hNonDup, hDedupExpired, hRedisFailed, hCount>>
    /\ UNCHANGED <<ingestVars, queryVars, embedVars, storeVars, procVars, runVars>>

\* the 60 seconds of a dedup key end
ExpireDedupKey(m) ==
    /\ m \in dedup
    /\ dedup' = dedup \ {m}
    /\ hDedupExpired' = hDedupExpired \cup {m}
    /\ UNCHANGED <<rlKey, rlAllowed, hReq, hLast, hQueued, hNonDup, hRedisFailed, hCount>>
    /\ UNCHANGED <<ingestVars, queryVars, embedVars, storeVars, procVars, runVars>>

\* no webhook request has arrived, Redis holds no key of the webhook
HookIdle ==
    /\ rlKey = NoKey
    /\ rlAllowed = 0
    /\ dedup = {}
    /\ hReq = [w \in Workers |-> NoRequest]
    /\ hLast = NoResponse
    /\ hQueued = [m \in MsgIds |-> 0]
    /\ hNonDup = [m \in MsgIds |-> 0]
    /\ hDedupExpired = {}
    /\ hRedisFailed = FALSE
    /\ hCount = 0

\* the windows a sender can be in when the requests arrive: no message yet,
\* or RateLimit - 1 or RateLimit messages let through in the running window
WindowsInProgress == {0, RateLimit - 1, RateLimit}

(***************************************************************************)
(* Document processor: one OCR extraction as a process                     *)
(***************************************************************************)
\* ocr_config.progress_update_frequency
ProgressUpdateFrequency == 1

\* how the OCR phase is entered: by the ingestion task through read_file, by a
\* call of _read_pdf_ocr, or by a call of _process_ocr_in_batches
OcrEntries == {"ingestion", "read_pdf_ocr", "in_batches"}

RunPages == {p \in SeqsUpTo({"ok", "error"}, MaxPages) : p # << >>}

\* process_document_async calls read_file(doc.file_path) without a callback;
\* slow: the machine or the configuration lets a batch outlast batch_timeout
RunInputs ==
    {r \in [entry : OcrEntries, pages : RunPages, callback : BOOLEAN, slow : BOOLEAN] :
        /\ r.entry = "ingestion" => ~r.callback
        /\ r.slow => r.entry = "in_batches"}

TotalPages == Len(rIn.pages)

Running == {i \in DOMAIN rPage : rPage[i] = "running"}

\* _read_pdf_ocr: progress_callback(0, total_pages, ...) and then
\* _process_ocr_sequential
ReadPdfOcr ==
    /\ rPc = "start"
    /\ rIn.entry \in {"ingestion", "read_pdf_ocr"}
    /\ rCalls' = IF rIn.callback THEN <<0>> ELSE << >>
    /\ rPc' = "sequential"
    /\ UNCHANGED <<rIn, rPage, rStart, rEnd, rPool, rTimedOut, rProcessed>>
    /\ UNCHANGED <<ingestVars, queryVars, embedVars, storeVars, procVars>>
    /\ UNCHANGED hookVars

\* _process_ocr_sequential: image_to_string starts on the next page
SequentialPageStart ==
    /\ rPc = "sequential"
    /\ rStart < TotalPages
    /\ rPage[rStart + 1] = "waiting"
    /\ rPage' = [rPage EXCEPT ![rStart + 1] = "running"]
    /\ UNCHANGED <<rIn, rPc, rStart, rEnd, rPool, rTimedOut, rProcessed, rCalls>>
    /\ UNCHANGED <<ingestVars, queryVars, embedVars, storeVars, procVars>>
    /\ UNCHANGED hookVars

\* _process_ocr_sequential: image_to_string returns or raises; the callback is
\* inside the try, after the OCR call
SequentialPageEnd ==
    /\ rPc = "sequential"
    /\ rStart < TotalPages
    /\ rPage[rStart + 1] = "running"
    /\ LET i == rStart + 1 IN
         /\ rPage' = [rPage EXCEPT ![i] = "done"]
         /\ rStart' = i
         /\ rCalls' = IF /\ rIn.pages[i] = "ok"
                         /\ rIn.callback
                         /\ (i % 10 = 0 \/ i = TotalPages)
                      THEN Append(rCalls, i) ELSE rCalls
         /\ rPc' = IF i = TotalPages THEN "done" ELSE "sequential"
    /\ UNCHANGED <<rIn, rEnd, rPool, rTimedOut, rProcessed>>
    /\ UNCHANGED <<ingestVars, queryVars, embedVars, storeVars, procVars>>
    /\ UNCHANGED hookVars

\* _process_ocr_in_batches is entered: batch_size and max_workers are computed
ProcessOcrInBatchesEnter ==
    /\ rPc = "start"
    /\ rIn.entry = "in_batches"
    /\ rPc' = "loop"
    /\ UNCHANGED <<rIn, rPage, rStart, rEnd, rPool, rTimedOut, rProcessed, rCalls>>
    /\ UNCHANGED <<ingestVars, queryVars, embedVars, storeVars, procVars>>
    /\ UNCHANGED hookVars

\* a turn of the batch loop starts: _process_ocr_batch_parallel makes the
\* executor and submits every page of the batch
BatchStart ==
    /\ rPc = "loop"
    /\ rStart < TotalPages
    /\ LET batch_size == GetBatchSize(TotalPages)
           batch_end == Min(rStart + batch_size, TotalPages)
       IN /\ rEnd' = batch_end
          /\ rPool' = GetWorkerCount(batch_size)
          /\ rPage' = [i \in DOMAIN rPage |->
                          IF i > rStart /\ i <= batch_end THEN "queued" ELSE rPage[i]]
    /\ rTimedOut' = FALSE
    /\ rPc' = "batch"
    /\ UNCHANGED <<rIn, rStart, rProcessed, rCalls>>
    /\ UNCHANGED <<ingestVars, queryVars, embedVars, storeVars, procVars>>
    /\ UNCHANGED hookVars

\* a free worker thread takes the page submitted first
WorkerTakesPage(i) ==
    /\ rPc = "batch"
    /\ rPage[i] = "queued"
    /\ \A j \in DOMAIN rPage : rPage[j] = "queued" => i <= j
    /\ Cardinality(Running) < rPool
    /\ rPage' = [rPage EXCEPT ![i] = "running"]
    /\ UNCHANGED <<rIn, rPc, rStart, rEnd, rPool, rTimedOut, rProcessed, rCalls>>
    /\ UNCHANGED <<ingestVars, queryVars, embedVars, storeVars, procVars>>
    /\ UNCHANGED hookVars

\* ocr_single_page returns (with the text, or "" after an exception)
WorkerEndsPage(i) ==
    /\ rPc = "batch"
    /\ rPage[i] = "running"
    /\ rPage' = [rPage EXCEPT ![i] = "done"]
    /\ UNCHANGED <<rIn, rPc, rStart, rEnd, rPool, rTimedOut, rProcessed, rCalls>>
    /\ UNCHANGED <<ingestVars, queryVars, embedVars, storeVars, procVars>>
    /\ UNCHANGED hookVars

\* batch_timeout passes before every page is done: as_completed raises and the
\* with-block of the executor waits in shutdown(wait=True)
BatchDeadline ==
    /\ rPc = "batch"
    /\ rIn.slow
    /\ ~rTimedOut
    /\ \E i \in DOMAIN rPage : rPage[i] \in {"queued", "running"}
    /\ rTimedOut' = TRUE
    /\ UNCHANGED <<rIn, rPc, rPage, rStart, rEnd, rPool, rProcessed, rCalls>>
    /\ UNCHANGED <<ingestVars, queryVars, embedVars, storeVars, procVars>>
    /\ UNCHANGED hookVars

\* the executor has shut down: the batch's text is appended and the callback
\* called, or the except branch counts the pages and goes on
BatchEnd ==
    /\ rPc = "batch"
    /\ \A i \in DOMAIN rPage : rPage[i] \notin {"queued", "running"}
    /\ rProcessed' = rProcessed + (rEnd - rStart)
    /\ rCalls' = IF ~rTimedOut /\ rIn.callback THEN Append(rCalls, rProcessed') ELSE rCalls
    /\ rStart' = rEnd
    /\ rPc' = IF rEnd = TotalPages THEN "done" ELSE "loop"
    /\ UNCHANGED <<rIn, rPage, rEnd, rPool, rTimedOut>>
    /\ UNCHANGED <<ingestVars, queryVars, embedVars, storeVars, procVars>>
    /\ UNCHANGED hookVars

\* no OCR extraction is under way
RunIdle ==
    /\ rIn = [entry |-> "none", pages |-> << >>, callback |-> FALSE, slow |-> FALSE]
    /\ rPc = "idle"
    /\ rPage = << >>
    /\ rStart = 0
    /\ rEnd = 0
    /\ rPool = 0
    /\ rTimedOut = FALSE
    /\ rProcessed = 0
    /\ rCalls = << >>

NoBatch == [svc |-> "none", texts |-> << >>, raised |-> FALSE, out |-> << >>,
            requests |-> << >>, hits |-> {}]

EmbedInit ==
    /\ embedModel = DefaultModels
    /\ eSeen = NoVector
    /\ bLast = NoBatch

\* no chunking or OCR call has been made
ProcInit ==
    /\ cIn = [text |-> << >>, chunk_size |-> NoneArg, overlap |-> NoneArg]
    /\ cOut = NotRun
    /\ oIn = [routine |-> "none", pages |-> << >>]
    /\ oOut = [called |-> FALSE, raised |-> FALSE, text |-> << >>]
    /\ FormatIdle
    /\ HookIdle
    /\ RunIdle

\* the vector store of the other specifications: connected, collection there
StoreInit ==
    /\ qdrantUp = TRUE
    /\ collections = [n \in {CollectionName(aiProvider)} |-> VectorSize(aiProvider)]
    /\ vsClient = TRUE
    /\ vsInitialized = TRUE
    /\ vsLast = NoStoreCall

Init ==
    /\ IngestInit
    /\ EmbedInit
    /\ StoreInit
    /\ ProcInit
    /\ enableCache = TRUE
    /\ redisUp = TRUE
    /\ cache = << >>
    /\ qCall = NoCall
    /\ qOut = NoOut
    /\ eLast = NoEmbed

Next ==
    \/ \E d \in DocIds, title \in Titles, n \in 0..MaxChunks : Upload(d, title, n)
    \/ \E t \in TaskIds, dbOk \in BOOLEAN, handlerOk \in BOOLEAN : TaskStart(t, dbOk, handlerOk)
    \/ \E t \in TaskIds, extractOk \in BOOLEAN, handlerOk \in BOOLEAN : TaskExtract(t, extractOk, handlerOk)
    \/ \E t \in TaskIds, outcome \in {"embed_fail", "upsert_fail", "commit_fail", "ok"},
          handlerOk \in BOOLEAN : TaskResume(t, outcome, handlerOk)
    \/ \E d \in DocIds, deleteOk \in BOOLEAN, dbOk \in BOOLEAN : Reindex(d, deleteOk, dbOk)
    \/ \E d \in DocIds, title \in Titles : UpdateDocument(d, title)
    \/ \E d \in DocIds, deleteOk \in BOOLEAN, dbOk \in BOOLEAN : DeleteDocument(d, deleteOk, dbOk)

Spec == Init /\ [][Next]_vars

InitQuery ==
    /\ IngestInit
    /\ aiProvider = "openai"
    /\ QueryInit
    /\ EmbedInit
    /\ StoreInit
    /\ ProcInit

NextQuery ==
    \/ \E op \in {"retrieve", "retrieve_async"}, query \in Queries, top_k \in TopKArgs,
          min_score \in MinScoreArgs, filters \in FilterArgs :
          Retrieve(op, query, top_k, min_score, filters)
    \/ \E op \in {"generate_response", "generate_response_async"}, query \in Queries,
          history \in HistoryArgs, filters \in FilterArgs :
          GenerateResponse(op, query, history, filters)
    \/ Return
    \/ RedisFlip
    \/ \E k \in DOMAIN cache : Expire(k)

SpecQuery == InitQuery /\ [][NextQuery]_vars

NextEmbed ==
    \/ \E svc \in Providers, text \in EmbedTexts, providerOk \in BOOLEAN :
          Embed(svc, text, providerOk)
    \/ \E svc \in Providers : \E model \in EmbeddingModels[svc] : SetEmbeddingModel(svc, model)
    \/ RedisFlip
    \/ \E k \in DOMAIN cache : Expire(k)

SpecEmbed == InitQuery /\ [][NextEmbed]_vars

\* the query path under either setting of AI_PROVIDER
InitProvider ==
    /\ IngestInit
    /\ QueryInit
    /\ EmbedInit
    /\ StoreInit
    /\ ProcInit

SpecProvider == InitProvider /\ [][NextQuery]_vars

\* before the process has started: no client, a fresh or unreachable service
InitStore ==
    /\ IngestInit
    /\ aiProvider = "openai"
    /\ QueryInit
    /\ enableCache = TRUE
    /\ EmbedInit
    /\ qdrantUp \in BOOLEAN
    /\ collections = << >>
    /\ vsClient = FALSE
    /\ vsInitialized = FALSE
    /\ vsLast = NoStoreCall
    /\ ProcInit

NextStore ==
    \/ \E provider \in Providers, clientOk \in BOOLEAN : Construct(provider, clientOk)
    \/ \E op \in StoreOps, clientOk \in BOOLEAN : StoreOperation(op, clientOk)
    \/ QdrantFlip

SpecStore == InitStore /\ [][NextStore]_vars

\* chunk_text as a function of its arguments
InitChunk ==
    /\ IngestInit
    /\ aiProvider = "openai"
    /\ QueryInit
    /\ enableCache = TRUE
    /\ EmbedInit
    /\ StoreInit
    /\ cIn \in [text : Texts, chunk_size : ChunkSizeArgs, overlap : OverlapArgs]
    /\ cOut = NotRun
    /\ oIn = [routine |-> "none", pages |-> << >>]
    /\ oOut = [called |-> FALSE, raised |-> FALSE, text |-> << >>]
    /\ FormatIdle
    /\ HookIdle
    /\ RunIdle

NextChunk == CallChunkText

SpecChunk == InitChunk /\ [][NextChunk]_vars

\* the OCR routines as functions of the pages
InitOcr ==
    /\ IngestInit
    /\ aiProvider = "openai"
    /\ QueryInit
    /\ enableCache = TRUE
    /\ EmbedInit
    /\ StoreInit
    /\ cIn = [text |-> << >>, chunk_size |-> NoneArg, overlap |-> NoneArg]
    /\ cOut = NotRun
    /\ oIn \in [routine : {"sequential", "in_batches"}, pages : PageLists]
    /\ oOut = [called |-> FALSE, raised |-> FALSE, text |-> << >>]
    /\ FormatIdle
    /\ HookIdle
    /\ RunIdle

NextOcr ==
    \/ ProcessOcrSequential
    \/ ProcessOcrInBatches

SpecOcr == InitOcr /\ [][NextOcr]_vars

\* one OCR extraction of a scanned document
InitOcrRun ==
    /\ IngestInit
    /\ aiProvider = "openai"
    /\ QueryInit
    /\ enableCache = TRUE
    /\ EmbedInit
    /\ StoreInit
    /\ cIn = [text |-> << >>, chunk_size |-> NoneArg, overlap |-> NoneArg]
    /\ cOut = NotRun
    /\ oIn = [routine |-> "none", pages |-> << >>]
    /\ oOut = [called |-> FALSE, raised |-> FALSE, text |-> << >>]
    /\ FormatIdle
    /\ HookIdle
    /\ rIn \in RunInputs
    /\ rPc = "start"
    /\ rPage = [i \in DOMAIN rIn.pages |-> "waiting"]
    /\ rStart = 0
    /\ rEnd = 0
    /\ rPool = 0
    /\ rTimedOut = FALSE
    /\ rProcessed = 0
    /\ rCalls = << >>

NextOcrRun ==
    \/ ReadPdfOcr
    \/ SequentialPageStart
    \/ SequentialPageEnd
    \/ ProcessOcrInBatchesEnter
    \/ BatchStart
    \/ \E i \in 1..(MaxPages + 1) : i \in DOMAIN rPage /\ WorkerTakesPage(i)
    \/ \E i \in 1..(MaxPages + 1) : i \in DOMAIN rPage /\ WorkerEndsPage(i)
    \/ BatchDeadline
    \/ BatchEnd

SpecOcrRun == InitOcrRun /\ [][NextOcrRun]_vars

\* the two call paths side by side
NextPaths ==
    \/ \E query \in Queries, top_k \in TopKArgs, min_score \in MinScoreArgs,
          filters \in FilterArgs : BothRetrieve(query, top_k, min_score, filters)
    \/ \E query \in Queries, history \in HistoryArgs, filters \in FilterArgs :
          BothGenerateResponse(query, history, filters)
    \/ Return
    \/ RedisFlip
    \/ \E k \in DOMAIN cache : Expire(k)

SpecPaths == InitQuery /\ [][NextPaths]_vars

\* format_for_whatsapp as a function of its arguments
InitFormat ==
    /\ IngestInit
    /\ aiProvider = "openai"
    /\ QueryInit
    /\ enableCache = TRUE
    /\ EmbedInit
    /\ StoreInit
    /\ cIn = [text |-> << >>, chunk_size |-> NoneArg, overlap |-> NoneArg]
    /\ cOut = NotRun
    /\ oIn = [routine |-> "none", pages |-> << >>]
    /\ oOut = [called |-> FALSE, raised |-> FALSE, text |-> << >>]
    /\ wIn \in [text : Texts, max_length : MaxLengthArgs]
    /\ wOut = [called |-> FALSE, segments |-> << >>]
    /\ RunIdle
    /\ HookIdle

NextFormat == CallFormatForWhatsapp

SpecFormat == InitFormat /\ [][NextFormat]_vars

\* the webhook endpoint served by the workers
InitWebhook ==
    /\ IngestInit
    /\ aiProvider = "openai"
    /\ QueryInit
    /\ enableCache = TRUE
    /\ EmbedInit
    /\ StoreInit
    /\ cIn = [text |-> << >>, chunk_size |-> NoneArg, overlap |-> NoneArg]
    /\ cOut = NotRun
    /\ oIn = [routine |-> "none", pages |-> << >>]
    /\ oOut = [called |-> FALSE, raised |-> FALSE, text |-> << >>]
    /\ FormatIdle
    /\ RunIdle
    /\ \E n \in WindowsInProgress :
         /\ rlKey = IF n = 0 THEN NoKey ELSE [present |-> TRUE, count |-> n, ttl |-> TRUE]
         /\ rlAllowed = n
    /\ dedup = {}
    /\ hReq = [w \in Workers |-> NoRequest]
    /\ hLast = NoResponse
    /\ hQueued = [m \in MsgIds |-> 0]
    /\ hNonDup = [m \in MsgIds |-> 0]
    /\ hDedupExpired = {}
    /\ hRedisFailed = FALSE
    /\ hCount = 0

NextWebhook ==
    \/ \E w \in Workers, event \in Events, msg \in MsgIds, phoneOk \in BOOLEAN :
          Receive(w, event, msg, phoneOk)
    \/ \E w \in Workers : DedupExists(w)
    \/ \E w \in Workers : DedupSetex(w)
    \/ \E w \in Workers : RateGet(w)
    \/ \E w \in Workers : RateAct(w)
    \/ \E w \in Workers, dbOk \in BOOLEAN : StoreAndSchedule(w, dbOk)
    \/ ExpireRateKey
    \/ \E m \in MsgIds : ExpireDedupKey(m)
    \/ RedisFlip

SpecWebhook == InitWebhook /\ [][NextWebhook]_vars

NextBatch ==
    \/ \E svc \in Providers, texts \in BatchInputs, failAt \in 0..3 : EmbedBatch(svc, texts, failAt)
    \/ RedisFlip
    \/ \E k \in DOMAIN cache : Expire(k)

SpecBatch == InitQuery /\ [][NextBatch]_vars

(***************************************************************************)
(* Properties of the ingestion pipeline                                    *)
(***************************************************************************)

\* C2: every run of process_document_async on an existing document ends with
\* the document's status equal to completed or failed, whichever step fails.
C2_RunEndsCompletedOrFailed ==
    lastOp.op = "task_end" => docStatus[lastOp.doc] \in {"completed", "failed"}

\* C3: a document's status is one of the four lifecycle values and moves only
\* along pending -> processing, processing -> completed, processing -> failed
\* and (re-index) any status -> pending, under every interleaving of ingestion
\* tasks and re-index requests.
C3_StatusMovesAlongLifecycle ==
    [][\A d \in DocIds :
          \/ docStatus'[d] = docStatus[d]
          \/ docStatus'[d] = "pending"
          \/ <<docStatus[d], docStatus'[d]>> \in
                {<<"pending", "processing">>, <<"processing", "completed">>,
                 <<"processing", "failed">>}]_vars

\* C4: the chunk rows of one document carry pairwise distinct indices that are
\* exactly 0..n-1, each row references a distinct point id, and a completed
\* document has chunks_count = n.
C4_ChunkRowsContiguous ==
    \A d \in DocIds :
        /\ \A r \in RowsOf(d) : chunkRecs[r] = 1
        /\ \A r1, r2 \in RowsOf(d) :
              r1 # r2 => /\ r1.chunk_index # r2.chunk_index
                         /\ r1.qdrant_point_id # r2.qdrant_point_id
        /\ {r.chunk_index : r \in RowsOf(d)} = 0..(RowCount(d) - 1)
        /\ docStatus[d] = "completed" => docChunksCount[d] = RowCount(d)

\* C5: after reindex_document(d) has returned True the document is pending with
\* chunks_count 0, has no chunk rows and no points in the vector index, whether
\* or not the index delete call succeeded (and a repeated call keeps it so).
C5_ReindexLeavesNothing ==
    (lastOp.op = "reindex" /\ lastOp.ret) =>
        /\ docStatus[lastOp.doc] = "pending"
        /\ docChunksCount[lastOp.doc] = 0
        /\ RowsOf(lastOp.doc) = {}
        /\ IndexPointsOf(lastOp.doc) = {}

C29_DeletedDocumentNotInIndex ==
    \A d \in DocIds : ~docActive[d] => IndexPointsOf(d) = {}

\* C30: whenever a document's status is failed, the vector index holds no
\* point of the document and no chunk row exists for it.
C30_FailedLeavesNothing ==
    \A d \in DocIds :
        docStatus[d] = "failed" => (IndexPointsOf(d) = {} /\ RowCount(d) = 0)

(***************************************************************************)
(* Properties of the query path                                            *)
(***************************************************************************)
ChainOps == {"generate_response", "generate_response_async"}
RetrieveOps == {"retrieve", "retrieve_async"}

\* C1: generate_response and generate_response_async never raise; the caller
\* always receives a record with text, sources, scores, tokens, the three
\* timings and docs_retrieved, and when a step inside the pipeline threw, that
\* record is the fixed apology with tokens = 0, docs_retrieved = 0, empty
\* sources and scores and an error field.
C1_OrchestratorAlwaysAnswers ==
    qCall.op \in ChainOps =>
        /\ ~qOut.raised
        /\ {"text", "sources", "scores", "tokens", "retrieval_time_ms",
            "generation_time_ms", "total_time_ms", "docs_retrieved"} \subseteq DOMAIN qOut.value
        /\ (~qCall.historyOk \/ ~qCall.genOk) =>
              /\ "error" \in DOMAIN qOut.value
              /\ qOut.value.text = ApologyText
              /\ qOut.value.tokens = 0
              /\ qOut.value.docs_retrieved = 0
              /\ qOut.value.sources = << >>
              /\ qOut.value.scores = << >>

\* the generation provider failed inside generate_response_async and the
\* caller got the apology record
C1_Witness ==
    /\ qCall.op = "generate_response_async"
    /\ qCall.historyOk /\ ~qCall.genOk /\ qCall.genCalls = 1
    /\ ~qOut.raised
    /\ "error" \in DOMAIN qOut.value

\* C7: when retrieval returns an empty list the orchestrator never builds the
\* grounded prompt; it builds the fallback prompt and calls the generation
\* provider exactly once, and the result has docs_retrieved = 0, empty sources
\* and scores and (the provider having answered) the generator's text as
\* formatted for the channel.
C7_EmptyRetrievalFallsBack ==
    (qCall.op \in ChainOps /\ qCall.retrieved = << >>) =>
        /\ qOut.value.docs_retrieved = 0
        /\ qOut.value.sources = << >>
        /\ qOut.value.scores = << >>
        /\ qCall.genCalls <= 1
        /\ qCall.messages # << >> => qCall.messages[1].content.template = "FALLBACK_PROMPT"
        /\ qCall.historyOk => qCall.genCalls = 1 /\ qCall.messages # << >>
        /\ (qCall.historyOk /\ qCall.genOk) =>
              /\ "error" \notin DOMAIN qOut.value
              /\ qOut.value.text =
                    (LET segments == FormatForWhatsapp(qCall.genText, WhatsappMaxLength)
                     IN IF Len(segments) = 1 THEN segments[1] ELSE segments)

\* nothing was retrieved, the fallback prompt went to the provider once and its
\* answer came back without any source
C7_Witness ==
    /\ qCall.op = "generate_response"
    /\ qCall.retrieved = << >> /\ ~qCall.embedFailed /\ ~qCall.searchFailed
    /\ qCall.historyOk /\ qCall.genOk /\ qCall.genCalls = 1
    /\ qCall.messages[1].content.template = "FALLBACK_PROMPT"
    /\ qOut.value.docs_retrieved = 0
    /\ "error" \notin DOMAIN qOut.value

\* C8: every passage returned by retrieve / retrieve_async has a score of at
\* least the min_score in force, and the list is in non-increasing score order.
C8_RetrievedAboveThresholdAndSorted ==
    qCall.op \in RetrieveOps =>
        \A i \in DOMAIN qOut.value :
            /\ qOut.value[i].score >= qCall.min_score
            /\ i < Len(qOut.value) => qOut.value[i].score >= qOut.value[i + 1].score

\* a retrieval with an explicit threshold returned two passages of different scores
C8_Witness ==
    /\ qCall.op = "retrieve"
    /\ qCall.min_score = 5
    /\ Len(qOut.value) = 2
    /\ qOut.value[1].score > qOut.value[2].score

\* C9: retrieve and retrieve_async never raise; when the query embedding or the
\* vector search fails they return the empty list, so the orchestrator takes
\* the fallback path (one provider call with the fallback prompt) and does not
\* answer with the apology on account of the retrieval failure.
C9_RetrievalFailureIsEmpty ==
    /\ qCall.op \in RetrieveOps =>
          /\ ~qOut.raised
          /\ (qCall.embedFailed \/ qCall.searchFailed) => qOut.value = << >>
    /\ (qCall.op \in ChainOps /\ (qCall.embedFailed \/ qCall.searchFailed)) =>
          /\ ~qOut.raised
          /\ qCall.retrieved = << >>
          /\ qCall.historyOk =>
                /\ qCall.genCalls = 1
                /\ qCall.messages[1].content.template = "FALLBACK_PROMPT"
          /\ (qCall.historyOk /\ qCall.genOk) => "error" \notin DOMAIN qOut.value

\* the vector search failed inside the orchestrator's retrieval and the answer
\* is the provider's, produced from the fallback prompt
C9_Witness ==
    /\ qCall.op = "generate_response_async"
    /\ qCall.searchFailed
    /\ qCall.historyOk /\ qCall.genOk
    /\ qCall.messages[1].content.template = "FALLBACK_PROMPT"
    /\ "error" \notin DOMAIN qOut.value

\* C10: with the cache enabled and reachable and the entry written by the first
\* call not yet expired, two successive calls embed(x) on one service issue at
\* most one provider call in total.
C10_SecondEmbedFromCache ==
    (eLast.paired /\ eLast.cacheUp) => eLast.pairCalls <= 1

\* the second of two successive Gemini calls was answered from the cache
C10_Witness ==
    /\ eLast.svc = "gemini"
    /\ eLast.paired /\ eLast.cacheUp
    /\ eLast.calls = 0
    /\ eLast.pairCalls = 1

(***************************************************************************)
(* Properties of the embedding cache keys and of batch embedding           *)
(***************************************************************************)

\* C11: the cache key separates configurations that differ in provider or in
\* embedding model, so a successful embed(x) never returns a vector that was
\* cached under another provider or another model: the vector handed back is
\* the one of the service's provider and of the model currently configured.
C11_NoVectorFromOtherConfiguration ==
    eLast.ok =>
        /\ eSeen.provider = eLast.svc
        /\ eSeen.model = embedModel[eLast.svc]
        /\ eSeen.text = eLast.text

\* C12: in both services the batch call looks every input text up in the cache
\* before any provider request: a text with a live entry is answered from the
\* cache and is in no provider request; only misses are sent.
C12_BatchHitsNotSent ==
    \A i \in bLast.hits :
        /\ \A r \in DOMAIN bLast.requests : bLast.texts[i] \notin Range(bLast.requests[r])
        /\ ~bLast.raised => bLast.out[i].text = bLast.texts[i]

\* C13: a batch call that returns gives a list as long as its input whose i-th
\* element is the embedding of texts[i], never a placeholder, and no provider
\* request of the call carries more than 100 texts.
C13_BatchOrderAndRequestSize ==
    /\ \A r \in DOMAIN bLast.requests : Len(bLast.requests[r]) <= BatchSize
    /\ (bLast.svc # "none" /\ ~bLast.raised) =>
          /\ Len(bLast.out) = Len(bLast.texts)
          /\ \A i \in DOMAIN bLast.texts :
                /\ bLast.out[i] # NoVector
                /\ bLast.out[i].provider = bLast.svc
                /\ bLast.out[i].text = bLast.texts[i]

(***************************************************************************)
(* Properties of the provider configuration and of the vector store        *)
(***************************************************************************)

\* C14: under any one setting of AI_PROVIDER the service that embeds the
\* queries in the Retriever is the service that embeds the chunks during
\* ingestion, both of the configured provider, so query vectors have the
\* dimension of the stored vectors; and the orchestrator's generator is the
\* configured provider's.
C14_OneSwitchSelectsEveryService ==
    /\ qCall.op \in RetrieveOps \cup ChainOps =>
          /\ qCall.embedSvc = FactoryEmbeddingsService(aiProvider)
          /\ qCall.embedSvc = FileProcessorEmbeddings
          /\ EmbeddingDim(qCall.embedSvc) = EmbeddingDim(FileProcessorEmbeddings)
          /\ EmbeddingDim(qCall.embedSvc) = VectorSize(aiProvider)
    /\ qCall.op \in ChainOps => qCall.genSvc = FactoryGeneratorService(aiProvider)

\* C15: collection name and vector size both follow the provider
\* configuration: two providers never resolve to the same collection name, so
\* the collection an initialized store works on has the vector size of the
\* active configuration.
C15_CollectionPerProvider ==
    (vsInitialized /\ CollectionName(aiProvider) \in DOMAIN collections) =>
        collections[CollectionName(aiProvider)] = VectorSize(aiProvider)

\* C16: constructing the store never fails, and an operation invoked on a store
\* that is not yet initialized connects and ensures the collection first: when
\* the service is reachable at that call, the store is initialized and the
\* collection exists afterwards (delete_collection aside).
C16_LazyInitialization ==
    /\ vsLast.op = "construct" => ~vsLast.raised
    /\ (vsLast.op \in StoreOps \ {"delete_collection"} /\ ~vsLast.wasInitialized /\ vsLast.up) =>
          /\ vsInitialized
          /\ CollectionName(aiProvider) \in DOMAIN collections

(***************************************************************************)
(* Properties of the document processor                                    *)
(***************************************************************************)

\* C17: chunk_text(text, chunk_size = N, overlap = 0) returns chunks of at most
\* N tokens each, except a chunk that consists of one single sentence whose
\* own token count exceeds N.
C17_ChunksWithinSize ==
    (cOut.called /\ cIn.overlap = 0 /\ cIn.chunk_size # NoneArg) =>
        \A i \in DOMAIN cOut.chunks :
            \/ CountTokens(cOut.chunks[i].text) <= cIn.chunk_size
            \/ /\ cOut.chunks[i].prefix = << >>
               /\ Len(cOut.chunks[i].own) = 1
               /\ CountTokens(cOut.chunks[i].own[1]) > cIn.chunk_size

\* the sentences put into the chunks, in chunk order
OwnSentences(chunks) == Concat([i \in DOMAIN chunks |-> chunks[i].own])

\* the non-empty stripped pieces that splitting a text on '. ' gives
SentencePieces(text) ==
    LET pieces == SplitOnPeriodBlank(ReplaceNewlines(text), << >>)
    IN SelectSeq([i \in DOMAIN pieces |-> Strip(pieces[i])], LAMBDA x : x # << >>)

\* C18: every chunk is its overlap prefix followed by whole sentences, and the
\* chunks read in order without their overlap prefixes give exactly the
\* source's sentences in their order: none dropped, duplicated or split, also
\* when a sentence is longer than chunk_size.
C18_ChunksKeepSentences ==
    cOut.called =>
        /\ \A i \in DOMAIN cOut.chunks :
              cOut.chunks[i].text = Strip(cOut.chunks[i].prefix \o Concat(cOut.chunks[i].own))
        /\ OwnSentences(cOut.chunks) = Sentences(cIn.text)
        /\ SentencePieces(Concat(OwnSentences(cOut.chunks))) = SentencePieces(cIn.text)

\* a sentence longer than chunk_size sits whole in a chunk of its own that
\* starts with overlap from the chunk before
C18_Witness ==
    /\ cOut.called
    /\ cIn.chunk_size = 1 /\ cIn.overlap = 1
    /\ Len(cOut.chunks) >= 2
    /\ cOut.chunks[2].prefix # << >>
    /\ Len(cOut.chunks[2].own) = 1
    /\ CountTokens(cOut.chunks[2].own[1]) > cIn.chunk_size

\* C19: chunk_text of the empty text returns no chunk, for every chunk_size and
\* overlap.
C19_EmptyTextNoChunks ==
    (cOut.called /\ cIn.text = << >>) => cOut.chunks = << >>

\* the OCR output of the pages that tesseract read, in page order
ReadPages(pages) ==
    Concat([i \in DOMAIN pages |-> IF pages[i] = "ok" THEN <<PageTexts[i]>> ELSE << >>])

DesignedPool == GetWorkerCount(GetBatchSize(TotalPages))

\* the batch a page belongs to (pages count from 1)
BatchOf(i) == (i - 1) \div GetBatchSize(TotalPages)

\* at most min(max_workers, batch size) pages are in flight
C21_InFlightBounded ==
    rPc # "idle" => Cardinality(Running) <= DesignedPool

\* no page of a later batch is submitted or started before every page of the
\* batches before it is done, a timed-out batch included
C21_BatchesSequential ==
    rPc # "idle" =>
        \A i, j \in DOMAIN rPage :
            (BatchOf(i) < BatchOf(j) /\ rPage[j] # "waiting") => rPage[i] = "done"

\* C21: during the OCR phase of a scanned document the pages of a batch are
\* worked on by a pool of min(max_workers, batch size) threads, at most that
\* many pages are in flight, and the batches follow one another strictly, also
\* after a batch timeout.
C21_ParallelWithinSerialAcross ==
    /\ (Running # {} /\ DesignedPool >= 2) => rPool = DesignedPool
    /\ C21_InFlightBounded
    /\ C21_BatchesSequential

\* the processed counts the cadence asks for: every multiple of
\* progress_update_frequency up to total_pages, and total_pages itself
CadenceCounts ==
    {n \in 1..TotalPages : n % ProgressUpdateFrequency = 0 \/ n = TotalPages}

\* C22: the ingestion pipeline passes a progress callback; with a callback,
\* OCR extraction reports at the configured cadence with non-decreasing
\* counts, and the last report is processed = total_pages, also when pages or
\* a whole batch failed.
C22_ProgressReported ==
    rPc = "done" =>
        /\ rIn.entry = "ingestion" => rIn.callback
        /\ rIn.callback =>
              /\ \A a, b \in DOMAIN rCalls : a <= b => rCalls[a] <= rCalls[b]
              /\ rCalls # << >> /\ rCalls[Len(rCalls)] = TotalPages
              /\ CadenceCounts \subseteq {rCalls[a] : a \in DOMAIN rCalls}

(***************************************************************************)
(* Properties of the two call paths                                        *)
(***************************************************************************)

\* C23: called with the same arguments in the same state, with the same
\* answers of embedding provider, cache, vector index and generation provider,
\* retrieve and retrieve_async return the same list, and generate_response and
\* generate_response_async return the same text, sources, scores, tokens and
\* docs_retrieved (the same apology when they fail); both leave the same cache.
C23_CallPathsEquivalent ==
    /\ qCall.op = "both_retrieve" =>
          /\ qCall.blocking.raised = qCall.suspending.raised
          /\ qCall.blocking.value = qCall.suspending.value
          /\ qCall.blocking.cache = qCall.suspending.cache
    /\ qCall.op = "both_generate_response" =>
          /\ qCall.blocking.raised = qCall.suspending.raised
          /\ qCall.blocking.value.text = qCall.suspending.value.text
          /\ qCall.blocking.value.sources = qCall.suspending.value.sources
          /\ qCall.blocking.value.scores = qCall.suspending.value.scores
          /\ qCall.blocking.value.tokens = qCall.suspending.value.tokens
          /\ qCall.blocking.value.docs_retrieved = qCall.suspending.value.docs_retrieved
          /\ qCall.blocking.cache = qCall.suspending.cache

\* both orchestrators answered from the same two retrieved documents
C23_Witness ==
    /\ qCall.op = "both_generate_response"
    /\ qCall.suspending.value.docs_retrieved = 2
    /\ qCall.suspending.value.scores = <<9, 7>>
    /\ qCall.blocking.value.text # ApologyText

(***************************************************************************)
(* Properties of format_for_whatsapp                                       *)
(***************************************************************************)

\* the paragraphs of a text as a reader sees them: the pieces between blank
\* lines, without surrounding whitespace, empty pieces left out
Paragraphs(text) ==
    LET pieces == SplitOnBlankline(text, << >>)
    IN SelectSeq([i \in DOMAIN pieces |-> StripWhitespace(pieces[i])], LAMBDA x : x # << >>)

\* every segment is at most max_length characters long
C24_SegmentsBounded ==
    wOut.called => \A i \in DOMAIN wOut.segments : Len(wOut.segments[i]) <= wIn.max_length

\* the segments in order hold the paragraphs of the text, once each, in order
C24_ParagraphsKept ==
    wOut.called =>
        Concat([i \in DOMAIN wOut.segments |-> Paragraphs(wOut.segments[i])]) = Paragraphs(wIn.text)

\* C24: for every text and every max_length, each segment format_for_whatsapp
\* returns is at most max_length long, and the segments in order hold every
\* paragraph of the text exactly once and in the original order.
C24_SegmentsBoundedAndComplete ==
    C24_SegmentsBounded /\ C24_ParagraphsKept

(***************************************************************************)
(* Properties of the webhook                                               *)
(***************************************************************************)

\* C25: a POST that carries an incoming text message of a valid phone number under
\* the event name 'message.incoming' is answered with status 'queued'.
C25_IncomingMessageQueued ==
    (hLast.event = "message.incoming" /\ hLast.phoneOk) => hLast.status = "queued"

\* C26: with Redis reachable, at most RateLimit calls of allow_request for the
\* identifier are answered True within one window of its key, also when the
\* requests are handled by workers side by side.
C26_AtMostLimitPerWindow ==
    ~hRedisFailed => rlAllowed <= RateLimit

\* C27: whenever the rate-limit key of an identifier exists it carries an expiry.
C27_RateKeyAlwaysExpires ==
    rlKey.present => rlKey.ttl

\* C28: with Redis reachable, a message id delivered more than once while its
\* dedup key has not run out is stored at most once, schedules at most one
\* auto-reply, and every delivery after the first is answered 'duplicate'.
C28_OneMessagePerId ==
    ~hRedisFailed =>
        \A m \in MsgIds : m \notin hDedupExpired => (hQueued[m] <= 1 /\ hNonDup[m] <= 1)
====
